---- MODULE Spec2Model ----
(***************************************************************************)
(* Model of the LLM runtime of fsc-assistant:                              *)
(*   src/src/assistant/llm/runtime/orchestrator.py  (ChatOrchestrator)     *)
(*   src/src/assistant/llm/runtime/tools.py         (ToolExecutionManager) *)
(*   src/src/assistant/llm/runtime/transport.py     (ChatRequest)          *)
(* Texts are sequences of symbols, so that concatenation, JSON quoting and *)
(* newline removal are computed and not assumed.  Python's None is the     *)
(* string "None" for text-valued fields and the empty sequence for         *)
(* optional numbers and lists (Python truthiness treats both alike where   *)
(* the code tests them).                                                   *)
(***************************************************************************)
EXTENDS Integers, Sequences, FiniteSets, TLC

VARIABLES
    pc,              \* where the orchestrator is: idle, dispatch, stream, tools, done, failed
    api,             \* the entry point running now: "invoke" or "invoke_stream"
    params,          \* OrchestrationParams of the running (possibly follow-up) call
    prepared,        \* _PreparedRequest of the running call
    request,         \* ChatRequest of the current dispatch attempt
    frames,          \* _invoke_with_retry frames entered so far in this dispatch
    history,         \* LLMChatHistoryManager entries, oldest first
    last_signature,  \* self._tool_manager._last_signature
    base_signature,  \* self._base_tool_manager._last_signature
    is_clone,        \* whether self._tool_manager is a clone of the base manager
    stream_handler,  \* whether a stream sink is configured
    sink,            \* the strings delivered to the stream sink, in order
    cs,              \* local variables of _consume_stream
    pending,         \* tool calls of the round still to be looked at
    calls,           \* call records of the round
    results,         \* result messages of the round
    assistant_content, \* assistant text parsed in the current turn
    result,          \* value returned to the caller of the top-level call
    error,           \* exception that reached the caller of the top-level call
    obs,             \* observations of the run (ghost): counters and logs
    tool_log,        \* the execute calls made so far (ghost), oldest first
    fin,             \* input of the function under study (function studies)
    fout             \* its output

vars == <<pc, api, params, prepared, request, frames, history, last_signature,
          base_signature, is_clone, stream_handler, sink, cs, pending, calls,
          results, assistant_content, result, error, obs, tool_log, fin, fout>>

\* the variables of the function studies, which the orchestrator leaves alone
study == <<fin, fout>>

-----------------------------------------------------------------------------
(* Bounds of the model *)

\* provider calls the provider answers within one top-level call
MaxProviderCalls == 3
\* stream chunks the provider sends within one top-level call
MaxChunks == 3
\* execute calls made on a tool manager used on its own
MaxExecutions == 3
\* entries of the histories given to _extend_history
MaxHistory == 3
\* chunks of a stream given to _consume_stream on its own
MaxStreamChunks == 4

-----------------------------------------------------------------------------
(* Program constants *)

MAX_INPUT_TOKENS == 64000

\* tokens of the symbol "L" (a long block of text): half the input budget
LongBlockTokens == 32000

None == "None"

\* ProviderConfig.models of the modelled deployment; primary_model is models[0]
Models == << <<"stub-model">>, <<"gpt-5", "-mini">> >>

primary_model == Models[1]

-----------------------------------------------------------------------------
(* Sequence helpers *)

RECURSIVE Concat(_)
Concat(ss) == IF ss = <<>> THEN <<>> ELSE Head(ss) \o Concat(Tail(ss))

RECURSIVE SumSeq(_)
SumSeq(ns) == IF ns = <<>> THEN 0 ELSE Head(ns) + SumSeq(Tail(ns))

Reverse(s) == [i \in 1..Len(s) |-> s[Len(s) + 1 - i]]

Suffix(s, k) == SubSeq(s, Len(s) - k + 1, Len(s))

IsPrefix(s, t) == Len(s) <= Len(t) /\ SubSeq(t, 1, Len(s)) = s

Range(s) == {s[i] : i \in 1..Len(s)}

Min(a, b) == IF a <= b THEN a ELSE b

-----------------------------------------------------------------------------
(* Messages: {role, content, tool_calls?, tool_call_id?, name?}.  A message *)
(* without the tool_calls key has tool_calls = <<>>; the orchestrator only   *)
(* creates the key with a non-empty list (orchestrator.py:372-382).         *)

Msg(role, content) ==
    [role |-> role, content |-> content, tool_calls |-> <<>>,
     tool_call_id |-> None, name |-> None]

UserMsg(text) == Msg("user", text)

AssistantMsg(text) == Msg("assistant", text)

SystemMsg(text) == Msg("system", text)

-----------------------------------------------------------------------------
(* Token counting and the history manager.  Their code is not part of the  *)
(* repository's runtime package; they are modelled from the specification.  *)

\* tokens of one symbol of text: "L" stands for a long block of text
SymbolTokens(sym) == IF sym = "L" THEN LongBlockTokens ELSE 1

\* count_message_tokens(msg): a natural number that depends on the message only
count_message_tokens(msg) ==
    SumSeq([i \in 1..Len(msg.content) |-> SymbolTokens(msg.content[i])])

\* HistoryManager.getChatHistory(n): the last n entries, oldest first
get_chat_history(hist, n) == Suffix(hist, Min(n, Len(hist)))

\* an addEntry that drops the message
add_entry_dropped(hist, msg) == hist

\* an addEntry that overwrites the newest entry
add_entry_overwriting(hist, msg) ==
    IF hist = <<>> THEN <<msg>> ELSE [hist EXCEPT ![Len(hist)] = msg]

\* HistoryManager.addEntry(message): appends
add_entry(hist, msg) == Append(hist, msg)


-----------------------------------------------------------------------------
(* ChatOrchestrator._extend_history *)

\* the loop with "continue" in place of "break": entries that do not fit are
\* skipped and older ones are still considered
RECURSIVE FitSkip(_, _)
FitSkip(history_messages, total_tokens) ==
    IF history_messages = <<>> THEN <<>>
    ELSE LET historic == Head(history_messages)
             tokens == count_message_tokens(historic)
         IN IF total_tokens + tokens > MAX_INPUT_TOKENS
            THEN FitSkip(Tail(history_messages), total_tokens)
            ELSE <<historic>> \o FitSkip(Tail(history_messages), total_tokens + tokens)

\* the loop over history_messages (newest first): stop at the first entry
\* that does not fit
RECURSIVE Fit(_, _)
Fit(history_messages, total_tokens) ==
    IF history_messages = <<>> THEN <<>>
    ELSE LET historic == Head(history_messages)
             tokens == count_message_tokens(historic)
         IN IF total_tokens + tokens > MAX_INPUT_TOKENS
            THEN <<>>
            ELSE <<historic>> \o Fit(Tail(history_messages), total_tokens + tokens)

extend_history(hist, messages, include_history) ==
    LET total_tokens ==
            SumSeq([i \in 1..Len(messages) |-> count_message_tokens(messages[i])])
        history_messages == Reverse(get_chat_history(hist, include_history))
        fitted == Fit(history_messages, total_tokens)
    IN Reverse(fitted) \o messages

-----------------------------------------------------------------------------
(* ChatRequest and the message cleanup helpers *)

\* temperatures are counted in tenths: 1 is 0.1, 10 is 1.0
DefaultTemperature == 1

FixedTemperature == 10

ChatRequest(messages, model, temperature, max_completion_tokens, reasoning_effort, tools, stream) ==
    [messages |-> messages, model |-> model, temperature |-> temperature,
     max_completion_tokens |-> max_completion_tokens,
     reasoning_effort |-> reasoning_effort, tools |-> tools,
     tool_choice |-> None, stream |-> stream]

IsToolShaped(msg) == msg.role = "tool" \/ msg.tool_calls # <<>>

\* a cleanup that drops the tool results but keeps the messages carrying tool_calls
clean_tool_results_only(messages) == SelectSeq(messages, LAMBDA msg : msg.role # "tool")

clean_tool_calls(messages) == SelectSeq(messages, LAMBDA msg : ~IsToolShaped(msg))

\* exceptions: a provider error carries what its text says (the rule it
\* matches, the limit or the parameter it names); the others are Python errors
ProviderError(kind, limit, param) ==
    [type |-> "ProviderError", kind |-> kind, limit |-> limit, param |-> param]

PyError(type, text) == [type |-> type, kind |-> text, limit |-> <<>>, param |-> None]

NoExc == PyError(None, None)

\* outcome of a call: a returned value, a returned None, or a raised exception
Returned(v) == [ok |-> TRUE, is_none |-> FALSE, value |-> v, exc |-> NoExc]

ReturnedNone == [ok |-> TRUE, is_none |-> TRUE, value |-> <<>>, exc |-> NoExc]

Raised(e) == [ok |-> FALSE, is_none |-> FALSE, value |-> <<>>, exc |-> e]

reduce_messages(messages) ==
    IF messages = <<>> THEN Raised(PyError("ValueError", "messages are required"))
    ELSE LET has_system == messages[1].role = "system"
             tail == IF has_system THEN Tail(messages) ELSE messages
             trimmed == IF has_system THEN <<messages[1]>> ELSE <<>>
         IN IF Len(tail) = 1
            THEN Raised(PyError("ValueError", "input text exceeded input token limit"))
            ELSE IF Len(tail) = 0
            THEN Raised(PyError("IndexError", "list index out of range"))
            ELSE LET half == Len(tail) \div 2
                     \* offsets at which tail[half - offset] is a user or
                     \* assistant message (0-based index in the code)
                     hits == {offset \in 0..half :
                                tail[half - offset + 1].role \in {"user", "assistant"}}
                     first == CHOOSE o \in hits : \A q \in hits : o <= q
                     cut == IF hits = {} THEN half ELSE half - first
                 IN Returned(trimmed \o SubSeq(tail, cut + 1, Len(tail)))

-----------------------------------------------------------------------------
(* LLMTransportClient._build_payload: the keyword arguments sent to the     *)
(* provider.  Each parameter is <<value>> when it is sent and <<>> when not. *)

\* LLMProviderConfig.max_completion_tokens of the modelled deployment
ProviderMaxCompletionTokens == 1500

\* a ceiling that ignores what the request asks for
WireCeilingOfConfig(requested) == ProviderMaxCompletionTokens

\* a payload that carries the request's value as it is
WireCeilingOfRequest(requested) == requested

\* min(request.max_completion_tokens, provider_config.max_completion_tokens)
WireCeiling(requested) == Min(requested, ProviderMaxCompletionTokens)

build_payload(req) ==
    [model |-> <<req.model>>,
     messages |-> <<req.messages>>,
     temperature |-> <<req.temperature>>,
     max_tokens |-> IF req.max_completion_tokens # <<>>
                    THEN <<WireCeiling(req.max_completion_tokens[1])>>
                    ELSE <<>>,
     reasoning_effort |-> IF req.reasoning_effort # None
                          THEN <<req.reasoning_effort>> ELSE <<>>,
     tools |-> IF req.tools # <<>> THEN <<req.tools>> ELSE <<>>,
     tool_choice |-> IF req.tool_choice # None THEN <<req.tool_choice>> ELSE <<>>]

\* the parameter names the transport can send
PayloadKeys ==
    {"model", "messages", "temperature", "max_tokens", "reasoning_effort",
     "tools", "tool_choice"}

\* the parameter names the payload of this request carries
WireParams(req) == {k \in PayloadKeys : build_payload(req)[k] # <<>>}

\* the SDK call rejects a keyword argument only if the payload carries it
ProviderMayRaise(req, exc) ==
    exc.kind = "unexpected_kwarg" => exc.param \in WireParams(req)

-----------------------------------------------------------------------------
(* ChatOrchestrator._adjust_request_on_error: the rules are tried in the    *)
(* order of the code.  The result is the updated request, or None (the      *)
(* caller re-raises), or an exception raised while the update was built.    *)

\* the fields of ChatRequest that have a default value
DefaultOf(field) ==
    CASE field = "temperature" -> DefaultTemperature
      [] field = "max_completion_tokens" -> <<>>
      [] field = "reasoning_effort" -> None
      [] field = "tools" -> <<>>
      [] field = "tool_choice" -> None
      [] field = "stream" -> FALSE

RequiredFields == {"messages", "model"}

DefaultedFields ==
    {"temperature", "max_completion_tokens", "reasoning_effort", "tools",
     "tool_choice", "stream"}

\* a last rule that retries the unchanged request
RetryUnchanged(req) == Returned(req)

\* no rule matched: return None
NoRuleMatches(req) == ReturnedNone

adjust_request_on_error(req, exc) ==
    IF exc.kind = "tools_unsupported"
    THEN Returned(ChatRequest(clean_tool_calls(req.messages), req.model,
                              req.temperature, req.max_completion_tokens,
                              req.reasoning_effort, <<>>, req.stream))
    ELSE IF exc.kind = "max_tokens" /\ exc.limit # <<>>
    THEN Returned(ChatRequest(req.messages, req.model, req.temperature,
                              exc.limit, req.reasoning_effort, req.tools,
                              req.stream))
    ELSE IF exc.kind = "input_too_long"
    THEN LET reduced == reduce_messages(req.messages)
         IN IF reduced.ok
            THEN Returned(ChatRequest(reduced.value, req.model, req.temperature,
                                      req.max_completion_tokens,
                                      req.reasoning_effort, req.tools, req.stream))
            ELSE Raised(reduced.exc)
    ELSE IF exc.kind = "temperature"
    THEN Returned(ChatRequest(req.messages, req.model, FixedTemperature,
                              req.max_completion_tokens, req.reasoning_effort,
                              req.tools, req.stream))
    ELSE IF exc.kind = "unexpected_kwarg"
    THEN LET unexpected == exc.param
             filtered_messages == IF unexpected = "tools"
                                  THEN clean_tool_calls(req.messages)
                                  ELSE req.messages
         IN IF unexpected \in RequiredFields
            THEN Raised(PyError("TypeError", "missing required argument"))
            ELSE IF unexpected \in DefaultedFields
            THEN Returned([[req EXCEPT !.messages = filtered_messages]
                              EXCEPT ![unexpected] = DefaultOf(unexpected)])
            ELSE Returned(req)
    ELSE NoRuleMatches(req)

-----------------------------------------------------------------------------
(* JSON as the tool manager uses it *)

\* json.dumps of a text: the text between double quotes
json_dumps(text) == <<"\"">> \o text \o <<"\"">>

\* json.loads of an argument text: "object" for {...} whose members are
\* key/value pairs (the symbol "k"), "value" for any other JSON value,
\* "invalid" when the text is no JSON
json_loads(text) ==
    IF Len(text) >= 2 /\ Head(text) = "{" /\ text[Len(text)] = "}"
       /\ \A i \in 2..(Len(text) - 1) : text[i] = "k"
    THEN "object"
    ELSE IF text = <<"[", "]">> THEN "value"
    ELSE "invalid"

-----------------------------------------------------------------------------
(* ToolExecutionManager *)

\* tools the caller may supply; discover_tools records for each whether it is
\* stateless (needs no injected context)
Stateless(tool) == tool = "echo_tool"

\* ToolExecutionManager.discover: (metadata list, mapping name -> stateless)
discover(tools) ==
    IF tools = <<>>
    THEN [metadata |-> <<>>, mapping |-> <<>>]
    ELSE [metadata |-> tools,
          mapping |-> [i \in 1..Len(tools) |->
                          [name |-> tools[i], stateless |-> Stateless(tools[i])]]]

\* IsMapped that only knows the last tool of the mapping
IsMappedLastOnly(mapping, name) ==
    mapping # <<>> /\ mapping[Len(mapping)].name = name

\* IsMapped that only knows the first tool of the mapping
IsMappedFirstOnly(mapping, name) == mapping # <<>> /\ mapping[1].name = name

\* tool_name in prepared.tools_mapping
IsMapped(mapping, name) == \E i \in 1..Len(mapping) : mapping[i].name = name

MappingOf(mapping, name) ==
    mapping[CHOOSE i \in 1..Len(mapping) : mapping[i].name = name]

CallRecord(tool_call_id, tool_type, tool_name, tool_json_args) ==
    [id |-> tool_call_id, type |-> tool_type,
     function |-> [name |-> tool_name, arguments |-> tool_json_args]]

ResultMessage(tool_call_id, tool_name, content) ==
    [role |-> "tool", content |-> content, tool_calls |-> <<>>,
     tool_call_id |-> tool_call_id, name |-> tool_name]

\* whether the call reaches the callable, given the argument text and context:
\* json.loads must succeed and tool(**tool_args) needs a mapping
ReachesCallable(tool_json_args) ==
    tool_json_args = <<>> \/ json_loads(tool_json_args) = "object"

\* a repetition test that ignores the assistant content
SameNameAndArgs(last, signature) ==
    last # <<>> /\ last[1] = signature[1] /\ last[2] = signature[2]

\* self._last_signature == signature
IsRepeated(last, signature) == last = signature

\* an error text that drops the "Error executing tool <name>: " prefix
ErrorResultBare(tool_name, exc_text) == exc_text

\* f"Error executing tool {tool_name}: {exc}"
ErrorResult(tool_name, exc_text) ==
    <<"Error executing tool ", tool_name, ": ">> \o exc_text

\* ToolExecutionManager.execute.  behaviour is what the callable does when it
\* is called: "return" (a value), "return_list" (a list) or "raise".
\* The result holds the two messages, the new _last_signature, whether the
\* callable was invoked and with which context, and what went to the sink.
execute(last, handler, behaviour, assistant_text, tool_call_id, tool_type, tool_name, tool_json_args, context) ==
    LET signature == <<tool_name, tool_json_args, assistant_text>>
        call == CallRecord(tool_call_id, tool_type, tool_name, tool_json_args)
        invoked == ReachesCallable(tool_json_args)
        failed == ~invoked \/ behaviour = "raise"
        exc_text == IF ~invoked
                    THEN (IF tool_json_args # <<>> /\ json_loads(tool_json_args) = "invalid"
                          THEN <<"JSONDecodeError">> ELSE <<"TypeError">>)
                    ELSE <<"boom">>
        res == IF failed
               THEN ErrorResult(tool_name, exc_text)
               ELSE <<"value of ", tool_name>>
        content == IF ~failed /\ behaviour = "return_list"
                   THEN res
                   ELSE json_dumps(res)
    IN IF IsRepeated(last, signature)
       THEN [messages |-> <<call, ResultMessage(tool_call_id, tool_name,
                                    <<"Skipped repeated tool call: ", tool_name>>)>>,
             last_signature |-> last,
             invoked |-> FALSE,
             context |-> None,
             sink |-> IF handler
                      THEN << <<"\n">>, <<"Skipping repeated tool call: ", tool_name, "\n">> >>
                      ELSE <<>>]
       ELSE [messages |-> <<call, ResultMessage(tool_call_id, tool_name, content)>>,
             last_signature |-> signature,
             invoked |-> invoked,
             context |-> IF invoked THEN context ELSE None,
             sink |-> IF handler
                      THEN << <<"\n">>, <<"Tool ", tool_name, " execution completed.", "\n">> >>
                      ELSE <<>>]

-----------------------------------------------------------------------------
(* ChatOrchestrator._prepare *)

OrchestrationParams(model, messages, prompt, tools, temperature, reasoning_effort, system_prompt, context, max_completion_tokens, include_history, stream) ==
    [model |-> model, messages |-> messages, prompt |-> prompt, tools |-> tools,
     temperature |-> temperature, reasoning_effort |-> reasoning_effort,
     system_prompt |-> system_prompt, context |-> context,
     max_completion_tokens |-> max_completion_tokens,
     include_history |-> include_history, stream |-> stream]

\* a test that finds no model in need of a fixed temperature
RequiresFixedTemperatureNever(model) == FALSE

\* model.startswith("gpt-5"): model names are sequences of symbols
RequiresFixedTemperature(model) == model # <<>> /\ Head(model) = "gpt-5"

\* the system prompt put in front of every list
insert_system_prompt_always(system_prompt, messages) ==
    IF system_prompt # <<>>
    THEN <<SystemMsg(system_prompt)>> \o messages
    ELSE messages

\* _prepare: the system prompt goes in front of a list that does not begin
\* with a system message
insert_system_prompt(system_prompt, messages) ==
    IF system_prompt # <<>> /\ (messages = <<>> \/ messages[1].role # "system")
    THEN <<SystemMsg(system_prompt)>> \o messages
    ELSE messages

\* _prepare: the outgoing list before the system prompt is looked at
outgoing_messages(p, hist) ==
    LET original_messages == IF p.messages # <<>>
                             THEN p.messages
                             ELSE <<UserMsg(p.prompt)>>
    IN IF p.include_history # 0
       THEN extend_history(hist, original_messages, p.include_history)
       ELSE original_messages

prepare(p, hist) ==
    LET original_messages == IF p.messages # <<>>
                             THEN p.messages
                             ELSE <<UserMsg(p.prompt)>>
        with_history == IF p.include_history # 0
                        THEN extend_history(hist, original_messages, p.include_history)
                        ELSE original_messages
        messages == insert_system_prompt(p.system_prompt, with_history)
        discovered == discover(p.tools)
        model == IF p.model # <<>> THEN p.model ELSE primary_model
        temperature == IF RequiresFixedTemperature(model)
                       THEN FixedTemperature
                       ELSE p.temperature
    IN [request |-> ChatRequest(messages, model, temperature,
                                p.max_completion_tokens, p.reasoning_effort,
                                discovered.metadata, p.stream),
        original_messages |-> original_messages,
        tools_mapping |-> discovered.mapping,
        tool_metadata |-> discovered.metadata]

\* a _prepare that inserts and prefixes in the caller's own list
caller_messages_aliased(p, hist) ==
    IF p.messages # <<>> THEN prepare(p, hist).request.messages ELSE p.messages

\* what the caller's params.messages holds when _prepare has returned: the
\* two deepcopy calls keep the history prefix and the inserted system message
\* in lists of _prepare's own
caller_messages(p, hist) == p.messages

-----------------------------------------------------------------------------
(* ChatOrchestrator._consume_stream: one iteration of the loop over chunks. *)
(* A chunk is {has_delta, content, tool, finish_reason}; tool is <<>> or    *)
(* <<delta>> with delta = {index, id, type, has_function, name, arguments}. *)

ConsumeInit ==
    [assistant_content |-> <<>>, tool_calls |-> <<>>, tool_index |-> -1,
     tool_call_id |-> None, tool_type |-> None, tool_name |-> None,
     tool_args_json |-> <<>>, chunks |-> 0]

ToolCall(id, type, name, arguments) ==
    [id |-> id, type |-> type, name |-> name, arguments |-> arguments]

\* what the iteration sends to the stream sink
ChunkSink(c, chunk) ==
    IF ~chunk.has_delta THEN <<>>
    ELSE (IF chunk.content # <<>> THEN <<chunk.content>> ELSE <<>>)
         \o (IF chunk.tool = <<>> THEN <<>>
             ELSE LET call == chunk.tool[1]
                  IN << <<"\n">> >>
                     \o (IF call.id # None /\ call.has_function
                            /\ call.index # c.tool_index
                         THEN << <<"tool_name:", call.name, "\n">>,
                                 <<"tool_id:", call.id, "\n">> >>
                         ELSE IF call.has_function
                         THEN <<call.arguments>>
                         ELSE <<>>))

\* a delta that replaces the text collected so far
ReplaceDelta(text, delta) == delta

\* assistant_content += delta.content
AppendDelta(text, delta) == text \o delta

ConsumeChunk(c, chunk) ==
    IF ~chunk.has_delta THEN [c EXCEPT !.chunks = @ + 1]
    ELSE
    LET c1 == [c EXCEPT !.assistant_content = AppendDelta(@, chunk.content),
                        !.chunks = @ + 1]
        c2 == IF chunk.tool = <<>> THEN c1
              ELSE LET call == chunk.tool[1]
                   IN IF call.id # None /\ call.has_function
                         /\ call.index # c1.tool_index
                      THEN [c1 EXCEPT
                              !.tool_calls =
                                  IF c1.tool_call_id # None /\ c1.tool_name # None
                                  THEN Append(@, ToolCall(c1.tool_call_id, c1.tool_type,
                                                          c1.tool_name, c1.tool_args_json))
                                  ELSE @,
                              !.tool_name = call.name,
                              !.tool_call_id = call.id,
                              !.tool_type = call.type,
                              !.tool_args_json = call.arguments,
                              !.tool_index = call.index]
                      ELSE IF call.has_function
                      THEN [c1 EXCEPT !.tool_args_json = @ \o call.arguments]
                      ELSE c1
    IN IF chunk.finish_reason = "tool_calls"
          /\ c2.tool_call_id # None /\ c2.tool_name # None
       THEN [c2 EXCEPT !.tool_calls =
                Append(@, ToolCall(c2.tool_call_id, c2.tool_type,
                                   c2.tool_name, c2.tool_args_json))]
       ELSE c2

-----------------------------------------------------------------------------
(* Inputs: what callers pass, what the provider answers, what tools do *)

\* caller-supplied conversation holding an earlier tool round
SuppliedConversation ==
    << UserMsg(<<"q1">>),
       [AssistantMsg(<<>>) EXCEPT !.tool_calls =
            <<CallRecord("call-0", "function", "echo_tool", <<"{", "k", "}">>)>>],
       ResultMessage("call-0", "echo_tool", json_dumps(<<"value of ", "echo_tool">>)),
       UserMsg(<<"q2">>) >>

\* the request-building knobs: all defaults, or all set
PlainKnobs ==
    [model |-> <<>>, temperature |-> DefaultTemperature, reasoning_effort |-> None,
     max_completion_tokens |-> <<>>, system_prompt |-> <<>>, include_history |-> 0]

RichKnobs ==
    [model |-> <<"gpt-5">>, temperature |-> 7, reasoning_effort |-> "low",
     max_completion_tokens |-> <<2000>>, system_prompt |-> <<"sys">>,
     include_history |-> 2]

\* a conversation that begins with the caller's own system message
OwnSystemConversation == << SystemMsg(<<"own">>), UserMsg(<<"q1">>) >>

\* the defaults, but for a system prompt
PromptKnobs == [PlainKnobs EXCEPT !.system_prompt = <<"sys">>]

\* the defaults, but for a temperature of 0.7
WarmKnobs == [PlainKnobs EXCEPT !.temperature = 7]

Params(k, messages, prompt, tools, context, stream) ==
    OrchestrationParams(k.model, messages, prompt, tools, k.temperature,
                        k.reasoning_effort, k.system_prompt, context,
                        k.max_completion_tokens, k.include_history, stream)

BothTools == <<"echo_tool", "ctx_tool">>

\* the calls a caller makes: the entry point and its parameters
CallChoices ==
    { [entry |-> "invoke",
       p |-> Params(PlainKnobs, <<>>, <<"ping">>, <<>>, None, FALSE)],
      [entry |-> "invoke",
       p |-> Params(PlainKnobs, <<>>, <<"ping">>, BothTools, "ctx", FALSE)],
      [entry |-> "invoke",
       p |-> Params(RichKnobs, SuppliedConversation, <<>>, <<"echo_tool">>, None, FALSE)],
      [entry |-> "invoke_stream",
       p |-> Params(PlainKnobs, <<>>, <<"hi">>, <<>>, None, TRUE)],
      [entry |-> "invoke_stream",
       p |-> Params(RichKnobs, SuppliedConversation, <<>>, BothTools, "ctx", TRUE)],
      [entry |-> "invoke",
       p |-> Params(PlainKnobs, <<>>, <<"ping">>, BothTools, None, TRUE)],
      [entry |-> "invoke",
       p |-> Params(WarmKnobs, <<>>, <<"ping">>, <<>>, None, FALSE)],
      [entry |-> "invoke",
       p |-> Params(PromptKnobs, OwnSystemConversation, <<>>, <<>>, None, FALSE)] }

\* assistant texts of non-streaming responses (None is read as "")
Contents == {<<>>, <<"pong">>}

GoodArgs == <<"{", "k", "}">>

BadArgs == <<"{", "k">>

ListArgs == <<"[", "]">>

\* tool-call lists a response may carry: (id, type, name, arguments)
ToolCallLists ==
    { <<ToolCall("call-1", "function", "echo_tool", GoodArgs)>>,
      <<ToolCall("call-1", "function", "ctx_tool", GoodArgs)>>,
      <<ToolCall("call-1", "function", "echo_tool", BadArgs)>>,
      <<ToolCall("call-1", "function", "ctx_tool", ListArgs)>>,
      <<ToolCall("call-1", "function", "ghost_tool", GoodArgs)>>,
      <<ToolCall("call-1", "function", "ghost_tool", GoodArgs),
        ToolCall("call-2", "function", "echo_tool", GoodArgs)>>,
      <<ToolCall("call-1", "function", "echo_tool", GoodArgs),
        ToolCall("call-2", "function", "ctx_tool", GoodArgs)>> }

Responses ==
    { [content |-> c, tool_calls |-> <<>>] : c \in Contents }
    \cup { [content |-> <<>>, tool_calls |-> tcs] : tcs \in ToolCallLists }
    \cup { [content |-> <<"note">>,
            tool_calls |-> <<ToolCall("call-1", "function", "ghost_tool", GoodArgs)>>] }

\* provider failures, by what their text says
ProviderErrors ==
    { ProviderError(k, <<>>, None) :
        k \in {"tools_unsupported", "input_too_long", "temperature", "rate_limit", "other"} }
    \cup { ProviderError("max_tokens", <<1000>>, None) }
    \cup { ProviderError("unexpected_kwarg", <<>>, param) :
              param \in {"tools", "max_tokens", "temperature"} }

\* stream chunks
TextChunk(text, finish) ==
    [has_delta |-> TRUE, content |-> text, tool |-> <<>>, finish_reason |-> finish]

ToolDelta(index, id, name, arguments) ==
    [index |-> index, id |-> id, type |-> IF id = None THEN None ELSE "function",
     has_function |-> TRUE, name |-> name, arguments |-> arguments]

ToolChunk(delta, finish) ==
    [has_delta |-> TRUE, content |-> <<>>, tool |-> <<delta>>, finish_reason |-> finish]

TextChunks ==
    { TextChunk(<<"hi ">>, None), TextChunk(<<"line", "\n">>, None),
      TextChunk(<<"there">>, "stop") }

ToolChunks ==
    { ToolChunk(ToolDelta(0, "call-1", "echo_tool", <<"{">>), None),
      ToolChunk(ToolDelta(0, None, None, <<"k", "}">>), "tool_calls") }

ToolBehaviours == {"return", "raise"}

-----------------------------------------------------------------------------
(* The orchestrator as a state machine.  One behaviour is one top-level     *)
(* call of invoke or invoke_stream, with the follow-up calls it makes.      *)

NoParams ==
    OrchestrationParams(<<>>, <<>>, <<>>, <<>>, DefaultTemperature, None, <<>>,
                        None, <<>>, 0, FALSE)

NoPrepared ==
    [request |-> ChatRequest(<<>>, <<>>, DefaultTemperature, <<>>, None, <<>>, FALSE),
     original_messages |-> <<>>, tools_mapping |-> <<>>, tool_metadata |-> <<>>]

\* histories read from the history file at start-up
InitialHistories ==
    { <<UserMsg(<<"L">>), AssistantMsg(<<"L", "old">>), UserMsg(<<"earlier">>)>> }

\* observations, all counted within the top-level call:
\*   calls          provider calls made
\*   turn_calls     provider calls made in the current dispatch
\*   failures       provider calls or streams that raised
\*   errors         the exceptions the provider raised in the current dispatch
\*   parsed         responses parsed; last_text, last_calls: what the last one held
\*   calls_at_parse provider calls made when the last response was parsed
\*   tool_turns     parsed responses that carried tool calls
\*   parsed_calls   tool calls parsed; ghost_calls: those naming no supplied tool
\*   execute_calls  calls of ToolExecutionManager.execute; executed: those that
\*                  reached the callable; tool_failures: those that raised
\*   chunks         stream chunks received; deltas: the content deltas of the
\*                  current stream; tool_deltas: its chunks with tool deltas
\*   supplied       the messages the caller supplied; hist0: the history then
\*   failed_req     the request of the last attempt that failed
\*   top_params     the parameters of the top-level call
NoObs ==
    [calls |-> 0, turn_calls |-> 0, failures |-> 0, errors |-> <<>>,
     parsed |-> 0, last_text |-> <<>>, last_calls |-> <<>>, calls_at_parse |-> 0,
     tool_turns |-> 0, parsed_calls |-> 0, ghost_calls |-> 0,
     execute_calls |-> 0, executed |-> 0, tool_failures |-> 0,
     chunks |-> 0, deltas |-> <<>>, tool_deltas |-> 0,
     supplied |-> <<>>, hist0 |-> <<>>,
     failed_req |-> ChatRequest(<<>>, <<>>, DefaultTemperature, <<>>, None, <<>>, FALSE),
     top_params |-> OrchestrationParams(<<>>, <<>>, <<>>, <<>>, DefaultTemperature,
                                        None, <<>>, None, <<>>, 0, FALSE)]

Init ==
    /\ pc = "idle"
    /\ api = "invoke"
    /\ params = NoParams
    /\ prepared = NoPrepared
    /\ request = NoPrepared.request
    /\ frames = 0
    /\ history \in InitialHistories
    /\ last_signature = <<>>
    /\ base_signature = <<>>
    /\ is_clone = FALSE
    /\ stream_handler = FALSE
    /\ sink = <<>>
    /\ cs = ConsumeInit
    /\ pending = <<>>
    /\ calls = <<>>
    /\ results = <<>>
    /\ assistant_content = <<>>
    /\ result = <<>>
    /\ error = NoExc
    /\ obs = NoObs
    /\ tool_log = <<>>
    /\ fin = <<>>
    /\ fout = <<>>

\* finally blocks that record nothing
record_nothing(hist, original_messages) == hist

\* finally blocks that add the original messages last one first
RECURSIVE record_reversed(_, _)
record_reversed(hist, original_messages) ==
    IF original_messages = <<>> THEN hist
    ELSE add_entry(record_reversed(hist, Tail(original_messages)),
                   Head(original_messages))

\* the loop of the finally blocks: every original message is added
RECURSIVE record_original(_, _)
record_original(hist, original_messages) ==
    IF original_messages = <<>> THEN hist
    ELSE record_original(add_entry(hist, Head(original_messages)),
                         Tail(original_messages))

\* the finally blocks of the n nested _invoke_with_retry frames
RECURSIVE RunFinally(_, _, _)
RunFinally(hist, original_messages, n) ==
    IF n = 0 THEN hist
    ELSE RunFinally(record_original(hist, original_messages), original_messages, n - 1)

\* configure_stream_handler(handler)
ConfigureStreamHandler(handler) ==
    /\ pc = "idle"
    /\ stream_handler' = handler
    /\ last_signature' = base_signature
    /\ is_clone' = TRUE
    /\ UNCHANGED <<pc, api, params, prepared, request, frames, history,
                   base_signature, sink, cs, pending, calls, results,
                   assistant_content, result, error, obs, tool_log, study>>

\* a caller starts invoke(p) or invoke_stream(p): _prepare runs
Invoke(p, entry) ==
    /\ pc = "idle"
    /\ LET prep == prepare(p, history)
       IN /\ prepared' = prep
          /\ request' = prep.request
          /\ obs' = [NoObs EXCEPT !.supplied = prep.original_messages,
                                  !.hist0 = history,
                                  !.top_params = p]
    /\ params' = [p EXCEPT !.messages = caller_messages(p, history)]
    /\ api' = entry
    /\ pc' = "dispatch"
    /\ frames' = 0
    /\ UNCHANGED <<history, last_signature, base_signature, is_clone,
                   stream_handler, sink, cs, pending, calls, results,
                   assistant_content, result, error, tool_log, study>>

\* number of the tool calls that name no tool the caller supplied
GhostCalls(tool_calls) ==
    Cardinality({i \in 1..Len(tool_calls) : tool_calls[i].name \notin Range(params.tools)})

\* the observations after a response with this text and these calls is parsed
ObserveParse(o, content, tool_calls) ==
    [o EXCEPT !.parsed = @ + 1,
              !.last_text = content,
              !.last_calls = tool_calls,
              !.tool_turns = IF tool_calls # <<>> THEN @ + 1 ELSE @,
              !.parsed_calls = @ + Len(tool_calls),
              !.ghost_calls = @ + GhostCalls(tool_calls)]

\* AfterParse with the test for tool calls inverted ("if tool_calls: return")
AfterParseInverted(hist, content, tool_calls) ==
    /\ history' = add_entry(hist, AssistantMsg(content))
    /\ assistant_content' = content
    /\ calls' = <<>>
    /\ results' = <<>>
    /\ IF tool_calls # <<>>
       THEN /\ pc' = "done"
            /\ result' = content
            /\ pending' = <<>>
       ELSE /\ pc' = "tools"
            /\ pending' = tool_calls
            /\ UNCHANGED result

\* AfterParse handing the tool calls to the loop last one first
AfterParseReversed(hist, content, tool_calls) ==
    /\ history' = add_entry(hist, AssistantMsg(content))
    /\ assistant_content' = content
    /\ calls' = <<>>
    /\ results' = <<>>
    /\ IF tool_calls = <<>>
       THEN /\ pc' = "done"
            /\ result' = content
            /\ pending' = <<>>
       ELSE /\ pc' = "tools"
            /\ pending' = Reverse(tool_calls)
            /\ UNCHANGED result

\* invoke / invoke_stream after the response is parsed: record the assistant
\* text, then return it or enter _handle_tool_loop
AfterParse(hist, content, tool_calls) ==
    /\ history' = add_entry(hist, AssistantMsg(content))
    /\ assistant_content' = content
    /\ calls' = <<>>
    /\ results' = <<>>
    /\ IF tool_calls = <<>>
       THEN /\ pc' = "done"
            /\ result' = content
            /\ pending' = <<>>
       ELSE /\ pc' = "tools"
            /\ pending' = tool_calls
            /\ UNCHANGED result

\* _invoke_with_retry: execute_chat returns a response
ExecuteChatOk(resp) ==
    /\ pc = "dispatch"
    /\ api = "invoke"
    /\ resp.tool_calls # <<>> => obs.calls + 1 < MaxProviderCalls
    /\ AfterParse(RunFinally(history, prepared.original_messages, frames + 1),
                  resp.content, resp.tool_calls)
    /\ obs' = [ObserveParse(obs, resp.content, resp.tool_calls)
                  EXCEPT !.calls = @ + 1, !.turn_calls = @ + 1,
                         !.calls_at_parse = obs.calls + 1]
    /\ UNCHANGED <<api, params, prepared, request, frames, last_signature,
                   base_signature, is_clone, stream_handler, sink, cs, error,
                   tool_log, study>>

\* _invoke_with_retry: execute_chat raises exc
ExecuteChatFail(exc) ==
    /\ pc = "dispatch"
    /\ api = "invoke"
    /\ ProviderMayRaise(request, exc)
    /\ LET updated == adjust_request_on_error(request, exc)
       IN IF updated.ok /\ ~updated.is_none
          THEN /\ obs.calls + 1 < MaxProviderCalls
               /\ request' = updated.value
               /\ frames' = frames + 1
               /\ UNCHANGED <<pc, history, error>>
          ELSE /\ history' = RunFinally(history, prepared.original_messages, frames + 1)
               /\ pc' = "failed"
               /\ error' = IF updated.ok THEN exc ELSE updated.exc
               /\ UNCHANGED <<request, frames>>
    /\ obs' = [obs EXCEPT !.calls = @ + 1, !.turn_calls = @ + 1,
                          !.failures = @ + 1, !.errors = Append(@, exc),
                          !.failed_req = request]
    /\ UNCHANGED <<api, params, prepared, last_signature, base_signature, is_clone,
                   stream_handler, sink, cs, pending, calls, results,
                   assistant_content, result, tool_log, study>>

\* _invoke_stream_with_retry returns the lazy stream (its finally block
\* records the original messages); _consume_stream asks for the first chunk
\* and the provider call behind it succeeds
StreamCallOk ==
    /\ pc = "dispatch"
    /\ api = "invoke_stream"
    /\ history' = record_original(history, prepared.original_messages)
    /\ pc' = "stream"
    /\ cs' = ConsumeInit
    /\ obs' = [obs EXCEPT !.calls = @ + 1, !.turn_calls = @ + 1,
                          !.deltas = <<>>, !.tool_deltas = 0]
    /\ UNCHANGED <<api, params, prepared, request, frames, last_signature,
                   base_signature, is_clone, stream_handler, sink, pending, calls,
                   results, assistant_content, result, error, tool_log, study>>

\* as StreamCallOk, but the provider call behind the first chunk raises exc:
\* the exception leaves _consume_stream and invoke_stream
StreamCallFail(exc) ==
    /\ pc = "dispatch"
    /\ api = "invoke_stream"
    /\ ProviderMayRaise(request, exc)
    /\ history' = record_original(history, prepared.original_messages)
    /\ pc' = "failed"
    /\ error' = exc
    /\ obs' = [obs EXCEPT !.calls = @ + 1, !.turn_calls = @ + 1,
                          !.failures = @ + 1, !.errors = Append(@, exc)]
    /\ UNCHANGED <<api, params, prepared, request, frames, last_signature,
                   base_signature, is_clone, stream_handler, sink, cs, pending,
                   calls, results, assistant_content, result, tool_log, study>>

\* _consume_stream: one chunk arrives and is consumed
StreamChunk(chunk) ==
    /\ pc = "stream"
    /\ obs.chunks < MaxChunks
    /\ chunk.tool # <<>> => obs.calls < MaxProviderCalls
    /\ cs' = ConsumeChunk(cs, chunk)
    /\ sink' = IF stream_handler THEN sink \o ChunkSink(cs, chunk) ELSE sink
    /\ obs' = [obs EXCEPT !.chunks = @ + 1,
                          !.deltas = IF chunk.has_delta /\ chunk.content # <<>>
                                     THEN Append(@, chunk.content) ELSE @,
                          !.tool_deltas = IF chunk.tool # <<>> THEN @ + 1 ELSE @]
    /\ UNCHANGED <<pc, api, params, prepared, request, frames, history,
                   last_signature, base_signature, is_clone, stream_handler,
                   pending, calls, results, assistant_content, result, error,
                   tool_log, study>>

\* _consume_stream: the stream breaks while a chunk is awaited
StreamBreak(exc) ==
    /\ pc = "stream"
    /\ pc' = "failed"
    /\ error' = exc
    /\ obs' = [obs EXCEPT !.failures = @ + 1, !.errors = Append(@, exc)]
    /\ UNCHANGED <<api, params, prepared, request, frames, history,
                   last_signature, base_signature, is_clone, stream_handler, sink,
                   cs, pending, calls, results, assistant_content, result,
                   tool_log, study>>

\* _consume_stream: the stream ends; invoke_stream goes on with what was parsed
StreamEnd ==
    /\ pc = "stream"
    /\ sink' = IF stream_handler THEN Append(sink, <<"\n">>) ELSE sink
    /\ AfterParse(history, cs.assistant_content, cs.tool_calls)
    /\ obs' = [ObserveParse(obs, cs.assistant_content, cs.tool_calls)
                  EXCEPT !.calls_at_parse = obs.calls]
    /\ UNCHANGED <<api, params, prepared, request, frames, last_signature,
                   base_signature, is_clone, stream_handler, cs, error,
                   tool_log, study>>

\* follow-up parameters with the result messages in reverse order
FollowUpParamsReversed(p, content, call_records, result_messages) ==
    [p EXCEPT !.messages = <<[AssistantMsg(content) EXCEPT !.tool_calls = call_records]>>
                           \o Reverse(result_messages),
              !.prompt = <<>>]

\* _handle_tool_loop: the parameters of the follow-up call
FollowUpParams(p, content, call_records, result_messages) ==
    [p EXCEPT !.messages = <<[AssistantMsg(content) EXCEPT !.tool_calls = call_records]>>
                           \o result_messages,
              !.prompt = <<>>]

\* _handle_tool_loop: the entry point of the follow-up call
FollowUpEntry(p) == IF p.stream THEN "invoke_stream" ELSE "invoke"

\* the caller's context handed to every tool
context_for_all(stateless, context) == context

\* _handle_tool_loop: the context handed to execute for a tool
context_for(stateless, context) == IF ~stateless THEN context ELSE None

\* what tool_log keeps of one execute call
LogEntry(tc, content, behaviour, run) ==
    [name |-> tc.name, arguments |-> tc.arguments, assistant_content |-> content,
     id |-> tc.id, type |-> tc.type, raises |-> behaviour = "raise",
     messages |-> run.messages, invoked |-> run.invoked, context |-> run.context]

\* _handle_tool_loop: one iteration of the loop over the parsed tool calls;
\* after the last one the loop's result is returned or the follow-up call
\* prepares its request
ToolStep(behaviour) ==
    /\ pc = "tools"
    /\ pending # <<>>
    /\ LET tc == Head(pending)
           mapped == IsMapped(prepared.tools_mapping, tc.name)
           stateless == mapped /\ MappingOf(prepared.tools_mapping, tc.name).stateless
           context == context_for(stateless, params.context)
           run == execute(last_signature, stream_handler, behaviour,
                          assistant_content, tc.id, tc.type, tc.name,
                          tc.arguments, context)
           calls1 == IF mapped THEN Append(calls, run.messages[1]) ELSE calls
           results1 == IF mapped THEN Append(results, run.messages[2]) ELSE results
           skipped == IsRepeated(last_signature,
                                 <<tc.name, tc.arguments, assistant_content>>)
           follow_up == FollowUpParams(params, assistant_content, calls1, results1)
           prep == prepare(follow_up, history)
           last == Tail(pending) = <<>>
       IN /\ last_signature' = IF mapped THEN run.last_signature ELSE last_signature
          /\ base_signature' = IF mapped /\ ~is_clone
                               THEN run.last_signature ELSE base_signature
          /\ sink' = IF mapped THEN sink \o run.sink ELSE sink
          /\ tool_log' = IF mapped
                         THEN Append(tool_log, LogEntry(tc, assistant_content, behaviour, run))
                         ELSE tool_log
          /\ obs' = [obs EXCEPT
                        !.execute_calls = IF mapped THEN @ + 1 ELSE @,
                        !.executed = IF mapped /\ run.invoked THEN @ + 1 ELSE @,
                        !.tool_failures =
                            IF mapped /\ ~skipped /\ (~run.invoked \/ behaviour = "raise")
                            THEN @ + 1 ELSE @,
                        !.errors = IF last /\ calls1 # <<>> THEN <<>> ELSE @,
                        !.turn_calls = IF last /\ calls1 # <<>> THEN 0 ELSE @]
          /\ calls' = calls1
          /\ results' = results1
          /\ pending' = Tail(pending)
          /\ IF ~last
             THEN UNCHANGED <<pc, api, params, prepared, request, frames, result>>
             ELSE IF calls1 = <<>>
             THEN /\ pc' = "done"
                  /\ result' = assistant_content
                  /\ UNCHANGED <<api, params, prepared, request, frames>>
             ELSE /\ pc' = "dispatch"
                  /\ api' = FollowUpEntry(params)
                  /\ params' = follow_up
                  /\ prepared' = prep
                  /\ request' = prep.request
                  /\ frames' = 0
                  /\ UNCHANGED result
    /\ UNCHANGED <<history, is_clone, stream_handler, cs, assistant_content, error,
                   study>>

Next ==
    \/ \E handler \in BOOLEAN : ConfigureStreamHandler(handler)
    \/ \E c \in CallChoices : Invoke(c.p, c.entry)
    \/ \E resp \in Responses : ExecuteChatOk(resp)
    \/ \E exc \in ProviderErrors : ExecuteChatFail(exc)
    \/ StreamCallOk
    \/ \E exc \in ProviderErrors : StreamCallFail(exc)
    \/ \E chunk \in TextChunks \cup ToolChunks : StreamChunk(chunk)
    \/ StreamBreak(ProviderError("other", <<>>, None))
    \/ StreamEnd
    \/ \E behaviour \in ToolBehaviours : ToolStep(behaviour)

Spec == Init /\ [][Next]_vars

TypeOK ==
    /\ pc \in {"idle", "dispatch", "stream", "tools", "done", "failed",
              "tool_manager", "extend_history", "extended",
              "consume_stream", "consumed",
              "iter_models", "iter_loop", "iterated",
              "load_provider_config", "loaded", "config_error",
              "conversations",
              "legacy_idle", "legacy_dispatch", "legacy_done", "legacy_failed", "invoke_model", "invoke_model_done",
            "generator", "generator_stream", "generator_done"}
    /\ api \in {"invoke", "invoke_stream"}
    /\ frames \in 0..MaxProviderCalls
    /\ obs.calls \in 0..MaxProviderCalls

-----------------------------------------------------------------------------
(* A ToolExecutionManager used on its own: a caller makes execute calls one *)
(* after the other on one manager, without a stream handler.                *)

ToolNames == {"echo_tool", "ctx_tool"}

ArgTexts == {<<>>, GoodArgs, BadArgs, ListArgs}

AssistantTexts == {<<>>, <<"thinking">>}

ToolsInit ==
    /\ pc = "tool_manager"
    /\ api = "invoke"
    /\ params = NoParams
    /\ prepared = NoPrepared
    /\ request = NoPrepared.request
    /\ frames = 0
    /\ history = <<>>
    /\ last_signature = <<>>
    /\ base_signature = <<>>
    /\ is_clone = FALSE
    /\ stream_handler = FALSE
    /\ sink = <<>>
    /\ cs = ConsumeInit
    /\ pending = <<>>
    /\ calls = <<>>
    /\ results = <<>>
    /\ assistant_content = <<>>
    /\ result = <<>>
    /\ error = NoExc
    /\ obs = NoObs
    /\ tool_log = <<>>
    /\ fin = <<>>
    /\ fout = <<>>

\* execute(tool=..., assistant_content=text, tool_name=name, tool_json_args=args)
ExecuteCall(name, args, text, behaviour) ==
    /\ pc = "tool_manager"
    /\ Len(tool_log) < MaxExecutions
    /\ LET tc == ToolCall("call-1", "function", name, args)
           context == IF Stateless(name) THEN None ELSE "ctx"
           run == execute(last_signature, stream_handler, behaviour, text,
                          tc.id, tc.type, tc.name, tc.arguments, context)
       IN /\ last_signature' = run.last_signature
          /\ base_signature' = run.last_signature
          /\ sink' = sink \o run.sink
          /\ tool_log' = Append(tool_log, LogEntry(tc, text, behaviour, run))
    /\ UNCHANGED <<pc, api, params, prepared, request, frames, history, is_clone,
                   stream_handler, cs, pending, calls, results, assistant_content,
                   result, error, obs, study>>

ToolsNext ==
    \E name \in ToolNames, args \in ArgTexts, text \in AssistantTexts,
       behaviour \in ToolBehaviours :
        ExecuteCall(name, args, text, behaviour)

SpecTools == ToolsInit /\ [][ToolsNext]_vars

-----------------------------------------------------------------------------
(* _extend_history on its own: the history, the new turn's messages and     *)
(* include_history are drawn, then the function is applied.                 *)

\* history entries: 1 token, half the budget, the whole budget, one more
HistoryEntries ==
    { UserMsg(<<"a">>), AssistantMsg(<<"L">>), UserMsg(<<"L", "L">>),
      AssistantMsg(<<"L", "L", "x">>) }

RECURSIVE SeqsUpTo(_, _)
SeqsUpTo(S, n) ==
    IF n = 0 THEN {<<>>}
    ELSE LET shorter == SeqsUpTo(S, n - 1)
         IN shorter \cup {Append(q, x) : q \in shorter, x \in S}

\* the new turn: 1 token, half the budget, exactly the budget, over the budget
NewTurns ==
    { <<UserMsg(<<"q">>)>>, <<UserMsg(<<"L">>)>>,
      <<UserMsg(<<"L">>), UserMsg(<<"L">>)>>, <<UserMsg(<<"L", "L", "x">>)>> }

HistInit ==
    /\ pc = "extend_history"
    /\ api = "invoke"
    /\ params = NoParams
    /\ prepared = NoPrepared
    /\ request = NoPrepared.request
    /\ frames = 0
    /\ history \in SeqsUpTo(HistoryEntries, MaxHistory)
    /\ last_signature = <<>>
    /\ base_signature = <<>>
    /\ is_clone = FALSE
    /\ stream_handler = FALSE
    /\ sink = <<>>
    /\ cs = ConsumeInit
    /\ pending = <<>>
    /\ calls = <<>>
    /\ results = <<>>
    /\ assistant_content = <<>>
    /\ result = <<>>
    /\ error = NoExc
    /\ obs = NoObs
    /\ tool_log = <<>>
    /\ fin \in [messages : NewTurns, include_history : 1..(MaxHistory + 1)]
    /\ fout = <<>>

\* self._extend_history(messages, include_history)
ExtendHistory ==
    /\ pc = "extend_history"
    /\ fout' = extend_history(history, fin.messages, fin.include_history)
    /\ pc' = "extended"
    /\ UNCHANGED <<api, params, prepared, request, frames, history,
                   last_signature, base_signature, is_clone, stream_handler, sink,
                   cs, pending, calls, results, assistant_content, result, error,
                   obs, tool_log, fin>>

HistNext == ExtendHistory

SpecHist == HistInit /\ [][HistNext]_vars

-----------------------------------------------------------------------------
(* _consume_stream on its own: the chunks of one stream arrive one by one,  *)
(* then the stream ends.  fin keeps the chunks consumed, fout the tool      *)
(* calls returned.                                                          *)

\* the chunks a stream is made of: the two calls echo_tool (index 0, arguments
\* in two fragments) and ctx_tool (index 1), sent one delta per chunk or both
\* in one chunk; text; finish reasons; a chunk without choices' delta
StreamChunks ==
    { ToolChunk(ToolDelta(0, "call-1", "echo_tool", <<"{">>), None),
      ToolChunk(ToolDelta(0, None, None, <<"k", "}">>), None),
      ToolChunk(ToolDelta(0, None, None, <<"k", "}">>), "tool_calls"),
      ToolChunk(ToolDelta(1, "call-2", "ctx_tool", <<"{", "}">>), None),
      ToolChunk(ToolDelta(1, "call-2", "ctx_tool", <<"{", "}">>), "tool_calls"),
      [has_delta |-> TRUE, content |-> <<>>,
       tool |-> <<ToolDelta(0, "call-1", "echo_tool", <<"{", "k", "}">>),
                  ToolDelta(1, "call-2", "ctx_tool", <<"{", "}">>)>>,
       finish_reason |-> "tool_calls"],
      TextChunk(<<>>, "tool_calls"),
      TextChunk(<<"hi ">>, None),
      TextChunk(<<>>, "stop"),
      [has_delta |-> FALSE, content |-> <<>>, tool |-> <<>>, finish_reason |-> None] }

StreamInit ==
    /\ pc = "consume_stream"
    /\ api = "invoke_stream"
    /\ params = NoParams
    /\ prepared = NoPrepared
    /\ request = NoPrepared.request
    /\ frames = 0
    /\ history = <<>>
    /\ last_signature = <<>>
    /\ base_signature = <<>>
    /\ is_clone = FALSE
    /\ stream_handler \in BOOLEAN
    /\ sink = <<>>
    /\ cs = ConsumeInit
    /\ pending = <<>>
    /\ calls = <<>>
    /\ results = <<>>
    /\ assistant_content = <<>>
    /\ result = <<>>
    /\ error = NoExc
    /\ obs = NoObs
    /\ tool_log = <<>>
    /\ fin = <<>>
    /\ fout = <<>>

\* one iteration of the loop over the stream
ConsumeOne(chunk) ==
    /\ pc = "consume_stream"
    /\ Len(fin) < MaxStreamChunks
    /\ cs' = ConsumeChunk(cs, chunk)
    /\ sink' = IF stream_handler THEN sink \o ChunkSink(cs, chunk) ELSE sink
    /\ fin' = Append(fin, chunk)
    /\ UNCHANGED <<pc, api, params, prepared, request, frames, history,
                   last_signature, base_signature, is_clone, stream_handler,
                   pending, calls, results, assistant_content, result, error,
                   obs, tool_log, fout>>

\* the stream is exhausted: _consume_stream returns
ConsumeEnd ==
    /\ pc = "consume_stream"
    /\ pc' = "consumed"
    /\ sink' = IF stream_handler THEN Append(sink, <<"\n">>) ELSE sink
    /\ assistant_content' = cs.assistant_content
    /\ fout' = cs.tool_calls
    /\ UNCHANGED <<api, params, prepared, request, frames, history,
                   last_signature, base_signature, is_clone, stream_handler, cs,
                   pending, calls, results, result, error, obs, tool_log, fin>>

StreamNext ==
    \/ \E chunk \in StreamChunks : ConsumeOne(chunk)
    \/ ConsumeEnd

SpecStream == StreamInit /\ [][StreamNext]_vars

-----------------------------------------------------------------------------
(* LLMProviderConfig.iter_models on its own (LLMTransportClient's           *)
(* available_models returns it): the configured models and the preferred    *)
(* model are drawn, then the generator is run to its end.  fin keeps the    *)
(* inputs, fout the models yielded and the position of the loop.            *)

\* the orchestrator's variables while a helper is studied on its own
OrchestratorUnused ==
    /\ api = "invoke"
    /\ params = NoParams
    /\ prepared = NoPrepared
    /\ request = NoPrepared.request
    /\ frames = 0
    /\ history = <<>>
    /\ last_signature = <<>>
    /\ base_signature = <<>>
    /\ is_clone = FALSE
    /\ stream_handler = FALSE
    /\ sink = <<>>
    /\ cs = ConsumeInit
    /\ pending = <<>>
    /\ calls = <<>>
    /\ results = <<>>
    /\ assistant_content = <<>>
    /\ result = <<>>
    /\ error = NoExc
    /\ obs = NoObs
    /\ tool_log = <<>>

orchestrator_vars ==
    <<api, params, prepared, request, frames, history, last_signature,
      base_signature, is_clone, stream_handler, sink, cs, pending, calls,
      results, assistant_content, result, error, obs, tool_log>>

MaxModels == 3

ModelNames == {"m1", "m2", "m3"}

\* non-empty lists of models (the loader refuses an empty one)
ModelLists == SeqsUpTo(ModelNames, MaxModels) \ {<<>>}

\* preferred: absent, empty, a configured name or another name
PreferredModels == ModelNames \cup {None, ""}

\* Python's truth value of an optional string
Truthy(text) == text # None /\ text # ""

\* a loop that leaves no model out
skip_none(preferred, model) == FALSE

\* iter_models: the loop leaves the preferred model out
skip_model(preferred, model) == Truthy(preferred) /\ model = preferred

ModelsInit ==
    /\ pc = "iter_models"
    /\ OrchestratorUnused
    /\ fin \in [models : ModelLists, preferred : PreferredModels]
    /\ fout = [yielded |-> <<>>, position |-> 0]

\* iter_models up to its loop: the preferred model is yielded if configured
IterModelsFirst ==
    /\ pc = "iter_models"
    /\ fout' = [yielded |-> IF Truthy(fin.preferred) /\ fin.preferred \in Range(fin.models)
                            THEN <<fin.preferred>> ELSE <<>>,
                position |-> 1]
    /\ pc' = "iter_loop"
    /\ UNCHANGED <<orchestrator_vars, fin>>

\* one iteration of the loop over self.models
IterModelsStep ==
    /\ pc = "iter_loop"
    /\ fout.position <= Len(fin.models)
    /\ LET model == fin.models[fout.position]
       IN fout' = [yielded |-> IF skip_model(fin.preferred, model)
                               THEN fout.yielded
                               ELSE Append(fout.yielded, model),
                   position |-> fout.position + 1]
    /\ UNCHANGED <<pc, orchestrator_vars, fin>>

\* the loop is over: the generator is exhausted
IterModelsEnd ==
    /\ pc = "iter_loop"
    /\ fout.position > Len(fin.models)
    /\ pc' = "iterated"
    /\ UNCHANGED <<orchestrator_vars, fin, fout>>

ModelsNext == IterModelsFirst \/ IterModelsStep \/ IterModelsEnd

SpecModels == ModelsInit /\ [][ModelsNext]_vars

-----------------------------------------------------------------------------
(* LLMConfigurationAdapter.load_provider_config on its own.  The            *)
(* configuration collaborator (AssistantConfig) is not part of the runtime  *)
(* package; it is modelled from the specification as a read-only table of   *)
(* options per section.  The models option is None, a string or a list:     *)
(* {kind, items}.  fin keeps the configuration and the argument, fout the   *)
(* outcome.                                                                 *)

DEFAULT_PROVIDER_KEY == "llm"

DEFAULT_MAX_COMPLETION_TOKENS == 150000

Sections == {"llm", "openai", "azure"}

NoModels == [kind |-> "none", items |-> <<>>]

\* a section in which nothing is set
EmptySection ==
    [provider |-> None, base_url |-> None, api_key |-> None, client_id |-> None,
     client_secret |-> None, models |-> NoModels]

\* the values an option may have: not set, empty, set
ModelsOptions ==
    { NoModels,
      [kind |-> "str", items |-> <<>>],
      [kind |-> "str", items |-> <<"m1">>],
      [kind |-> "list", items |-> <<>>],
      [kind |-> "list", items |-> <<"m1", "m2">>] }

SectionOptions ==
    [provider : {None}, base_url : {None, "https://llm"}, api_key : {None, "", "key"},
     client_id : {None, "", "id"}, client_secret : {None, "", "secret"},
     models : ModelsOptions]

\* AssistantConfig.get_option(section, key, default): the option, or the
\* default when the option is not set
get_option(config, section, key, default) ==
    IF config[section][key] = None THEN default ELSE config[section][key]

\* _provider_key
provider_key_of(provider_name) ==
    IF provider_name # "default" THEN provider_name ELSE DEFAULT_PROVIDER_KEY

\* _normalize_models: the assertion, then a string becomes a one-element list
normalize_models(config, provider_key) ==
    LET models == config[provider_key].models
    IN IF models.kind = "none" \/ models.items = <<>>
       THEN Raised(PyError("AssertionError", "please config LLM models"))
       ELSE Returned(models.items)

\* credentials checked alike for every provider
validate_credentials_uniform(provider_name, base_url, api_key, client_id, client_secret) ==
    IF provider_name # "default" /\ base_url = None
    THEN Raised(PyError("AssertionError", "please config LLM base url"))
    ELSE IF Truthy(api_key) THEN ReturnedNone
    ELSE IF client_id = None
    THEN Raised(PyError("AssertionError", "please config LLM client_id"))
    ELSE IF client_secret = None
    THEN Raised(PyError("AssertionError", "please config LLM client_secret"))
    ELSE ReturnedNone

\* _validate_credentials
validate_credentials(provider_name, base_url, api_key, client_id, client_secret) ==
    IF provider_name = "openai"
    THEN (IF api_key # None THEN ReturnedNone
          ELSE Raised(PyError("AssertionError", "please config LLM api_key")))
    ELSE IF provider_name # "default" /\ base_url = None
    THEN Raised(PyError("AssertionError", "please config LLM base url"))
    ELSE IF Truthy(api_key) THEN ReturnedNone
    ELSE IF client_id = None
    THEN Raised(PyError("AssertionError", "please config LLM client_id"))
    ELSE IF client_secret = None
    THEN Raised(PyError("AssertionError", "please config LLM client_secret"))
    ELSE ReturnedNone

\* the provider name load_provider_config settles on
resolved_provider_name(config, provider_name) ==
    IF Truthy(provider_name) THEN provider_name
    ELSE get_option(config, DEFAULT_PROVIDER_KEY, "provider", "default")

load_provider_config(config, provider_name) ==
    LET name == resolved_provider_name(config, provider_name)
        provider_key == provider_key_of(name)
        base_url == get_option(config, provider_key, "base_url", None)
        api_key == get_option(config, provider_key, "api_key", None)
        client_id == get_option(config, provider_key, "client_id", None)
        client_secret == get_option(config, provider_key, "client_secret", None)
        models == normalize_models(config, provider_key)
        valid == validate_credentials(name, base_url, api_key, client_id, client_secret)
    IN IF ~models.ok THEN models
       ELSE IF ~valid.ok THEN valid
       ELSE Returned([provider_name |-> name, provider_key |-> provider_key,
                      base_url |-> base_url, api_key |-> api_key,
                      client_id |-> client_id, client_secret |-> client_secret,
                      models |-> models.value,
                      max_completion_tokens |-> DEFAULT_MAX_COMPLETION_TOKENS,
                      timeout |-> [read |-> 180, connect |-> 5, write |-> 5]])

\* the configurations studied: one section is filled in, and the default
\* section may name a provider
Configurations ==
    { [s \in Sections |->
          IF s = DEFAULT_PROVIDER_KEY
          THEN [(IF s = filled THEN options ELSE EmptySection) EXCEPT !.provider = named]
          ELSE IF s = filled THEN options ELSE EmptySection] :
        filled \in Sections, options \in SectionOptions, named \in {None, "azure"} }

ProviderArguments == {None, "default", "openai", "azure"}

ConfigInit ==
    /\ pc = "load_provider_config"
    /\ OrchestratorUnused
    /\ fin \in [config : Configurations, provider_name : ProviderArguments]
    /\ fout = ReturnedNone

LoadProviderConfig ==
    /\ pc = "load_provider_config"
    /\ fout' = load_provider_config(fin.config, fin.provider_name)
    /\ pc' = IF fout'.ok THEN "loaded" ELSE "config_error"
    /\ UNCHANGED <<orchestrator_vars, fin>>

ConfigNext == LoadProviderConfig

SpecConfig == ConfigInit /\ [][ConfigNext]_vars

-----------------------------------------------------------------------------
(* Two conversations and their tool managers.  Each conversation's tool     *)
(* loop hands its calls to its orchestrator's ToolExecutionManager; the two *)
(* orchestrators were built with one manager each (as create_llm_runtime    *)
(* does) or with the same manager.  The calls of the two conversations      *)
(* interleave.  fin keeps the wiring, fout the _last_signature of the       *)
(* managers and the calls made so far.                                      *)

Conversations == {1, 2}

\* both conversations on the first manager, whatever the wiring
manager_of_shared(shared, conversation) == 1

\* the manager a conversation's orchestrator was built with
manager_of(shared, conversation) == IF shared THEN 1 ELSE conversation

\* the signatures the conversations' calls are drawn from
SharedArgTexts == {GoodArgs, BadArgs}

ConversationsInit ==
    /\ pc = "conversations"
    /\ OrchestratorUnused
    /\ fin \in [shared : BOOLEAN]
    /\ fout = [managers |-> << <<>>, <<>> >>, log |-> <<>>]

\* a conversation's tool loop calls execute on its manager
ConversationExecute(conversation, name, args, behaviour) ==
    /\ pc = "conversations"
    /\ Len(fout.log) < MaxExecutions
    /\ LET manager == manager_of(fin.shared, conversation)
           context == IF Stateless(name) THEN None ELSE "ctx"
           run == execute(fout.managers[manager], FALSE, behaviour, <<>>,
                          "call-1", "function", name, args, context)
       IN fout' = [managers |-> [fout.managers EXCEPT ![manager] = run.last_signature],
                   log |-> Append(fout.log,
                                  [conversation |-> conversation, name |-> name,
                                   arguments |-> args, invoked |-> run.invoked,
                                   content |-> run.messages[2].content])]
    /\ UNCHANGED <<pc, orchestrator_vars, fin>>

ConversationsNext ==
    \E conversation \in Conversations, name \in ToolNames, args \in SharedArgTexts,
       behaviour \in ToolBehaviours :
        ConversationExecute(conversation, name, args, behaviour)

SpecShared == ConversationsInit /\ [][ConversationsNext]_vars

-----------------------------------------------------------------------------
(* The legacy AgentOrchestrator.invoke_chat (assistant/llm/agent_client.py, *)
(* the same code in agent_client_refactored.py and in                       *)
(* fsc/llm/llm_client.py).  fin keeps the caller's arguments; fout keeps    *)
(* chat_params, the chat history, the nesting depth of invoke_chat with the *)
(* assistant_content of the calling frame, the message lists sent to the    *)
(* provider, the follow-up lists the tool rounds built, and the outcome.    *)

LegacyResponses ==
    { [finish_reason |-> f, content |-> r.content, tool_calls |-> r.tool_calls] :
        f \in {"stop", "tool_calls"}, r \in Responses }

LegacyArguments ==
    [inputs : {<<>>, OwnSystemConversation}, prompt : {<<"ping">>},
     tools : {<<>>, BothTools}, system_prompt : {<<>>, <<"sys">>},
     context : {None, "ctx"}, include_history : {0, 2}]

\* ToolExecutionHandler.execute_tool
execute_tool(behaviour, tool_call_id, tool_type, tool_name, tool_json_args, context) ==
    LET invoked == json_loads(tool_json_args) = "object"
        failed == ~invoked \/ behaviour = "raise"
        exc_text == IF ~invoked
                    THEN (IF json_loads(tool_json_args) = "invalid"
                          THEN <<"JSONDecodeError">> ELSE <<"TypeError">>)
                    ELSE <<"boom">>
        res == IF failed
               THEN ErrorResult(tool_name, exc_text)
               ELSE <<"value of ", tool_name>>
    IN [messages |-> <<CallRecord(tool_call_id, tool_type, tool_name, tool_json_args),
                       ResultMessage(tool_call_id, tool_name, json_dumps(res))>>,
        invoked |-> invoked,
        context |-> IF invoked /\ context # None THEN context ELSE None]

\* AgentOrchestrator._handle_tool_calls: (calls, results)
RECURSIVE handle_tool_calls(_, _, _, _)
handle_tool_calls(tool_calls, context, tools_mapping, behaviour) ==
    IF tool_calls = <<>> THEN [calls |-> <<>>, results |-> <<>>]
    ELSE LET tc == Head(tool_calls)
             rest == handle_tool_calls(Tail(tool_calls), context, tools_mapping, behaviour)
         IN IF ~IsMapped(tools_mapping, tc.name) THEN rest
            ELSE LET stateless == MappingOf(tools_mapping, tc.name).stateless
                     run == execute_tool(behaviour, tc.id, tc.type, tc.name, tc.arguments,
                                         IF ~stateless THEN context ELSE None)
                 IN [calls |-> <<run.messages[1]>> \o rest.calls,
                     results |-> <<run.messages[2]>> \o rest.results]

\* AgentOrchestrator._prepare_llm_call_params
prepare_llm_call_params(a, hist) ==
    LET original_messages == IF a.inputs # <<>> THEN a.inputs
                             ELSE <<UserMsg(a.prompt)>>
        extended == IF a.include_history # 0
                    THEN extend_history(hist, original_messages, a.include_history)
                    ELSE original_messages
        messages == IF a.system_prompt # <<>> /\ extended # <<>>
                       /\ extended[1].role # "system"
                    THEN <<SystemMsg(a.system_prompt)>> \o extended
                    ELSE extended
        discovered == discover(a.tools)
    IN [chat_params |-> [messages |-> messages, tools |-> discovered.metadata,
                         temperature |-> IF primary_model = <<"gpt-5">>
                                         THEN FixedTemperature ELSE DefaultTemperature,
                         model |-> primary_model, stream |-> FALSE],
        original_messages |-> original_messages,
        tools_mapping |-> discovered.mapping]

\* invoke_chat_completions: tool messages at the head of the list (after a
\* system message) are left out of what is sent
RECURSIVE drop_leading_tool(_)
drop_leading_tool(messages) ==
    IF messages # <<>> /\ messages[1].role = "tool" /\ Len(messages) > 1
    THEN drop_leading_tool(Tail(messages))
    ELSE messages

sent_messages(messages) ==
    IF messages # <<>> /\ messages[1].role = "system"
    THEN <<messages[1]>> \o drop_leading_tool(Tail(messages))
    ELSE drop_leading_tool(messages)

\* invoke_chat: the inputs its recursive call is given
follow_up_inputs(inputs, follow_up) == inputs

LegacyPrepared == prepare_llm_call_params(fin, fout.chat_history)

LegacyInit ==
    /\ pc = "legacy_idle"
    /\ OrchestratorUnused
    /\ fin \in LegacyArguments
    /\ fout = [chat_params |-> <<>>, chat_history |-> <<>>, depth |-> 0,
               caller_content |-> <<>>, requests |-> <<>>, rounds |-> <<>>,
               result |-> <<>>, error |-> NoExc]

\* a caller starts invoke_chat: the parameters are prepared
LegacyInvokeChat ==
    /\ pc = "legacy_idle"
    /\ fout' = [fout EXCEPT !.chat_params = LegacyPrepared.chat_params]
    /\ pc' = "legacy_dispatch"
    /\ UNCHANGED <<orchestrator_vars, fin>>

\* an exception leaves the running invoke_chat frame: the outermost frame
\* lets it out, an inner frame's caller logs it and returns its own
\* assistant_content
LegacyRaise(state, exc) ==
    IF state.depth = 0
    THEN /\ pc' = "legacy_failed"
         /\ fout' = [state EXCEPT !.error = exc]
    ELSE /\ pc' = "legacy_done"
         /\ fout' = [state EXCEPT !.result = state.caller_content]

\* the provider answers: the original messages are recorded, the response is
\* parsed, and the text is returned or the tools are run and invoke_chat
\* calls itself
LegacyRespond(resp, behaviour) ==
    /\ pc = "legacy_dispatch"
    /\ (resp.tool_calls # <<>> /\ resp.finish_reason = "stop") =>
           Len(fout.requests) + 1 < MaxProviderCalls
    /\ LET original_messages == IF fin.inputs # <<>> THEN fin.inputs
                                ELSE <<UserMsg(fin.prompt)>>
           recorded == record_original(fout.chat_history, original_messages)
           state == [fout EXCEPT !.chat_history = recorded,
                                 !.requests = Append(@, sent_messages(fout.chat_params.messages))]
           ran == handle_tool_calls(resp.tool_calls, fin.context,
                                    discover(fin.tools).mapping, behaviour)
           follow_up == <<[AssistantMsg(resp.content) EXCEPT !.tool_calls = ran.calls]>>
                        \o ran.results
           again == [fin EXCEPT !.inputs = follow_up_inputs(fin.inputs, follow_up)]
       IN IF resp.finish_reason # "stop"
          THEN LegacyRaise(state, PyError("UnboundLocalError", "assistant_content"))
          ELSE IF resp.tool_calls = <<>>
          THEN /\ pc' = "legacy_done"
               /\ fout' = [state EXCEPT
                              !.chat_history = add_entry(recorded, AssistantMsg(resp.content)),
                              !.result = resp.content]
          ELSE /\ pc' = "legacy_dispatch"
               /\ fout' = [state EXCEPT
                              !.rounds = Append(@, follow_up),
                              !.depth = @ + 1,
                              !.caller_content = resp.content,
                              !.chat_params =
                                  prepare_llm_call_params(again, recorded).chat_params]
    /\ UNCHANGED <<orchestrator_vars, fin>>

\* the provider refuses the tools: they are taken out of chat_params and the
\* request is made again
LegacyToolsUnsupported ==
    /\ pc = "legacy_dispatch"
    /\ fout.chat_params.tools # <<>>
    /\ Len(fout.requests) + 1 < MaxProviderCalls
    /\ fout' = [fout EXCEPT
                   !.requests = Append(@, sent_messages(fout.chat_params.messages)),
                   !.chat_params = [@ EXCEPT !.tools = <<>>,
                                             !.messages = clean_tool_calls(@)]]
    /\ UNCHANGED <<pc, orchestrator_vars, fin>>

\* the provider fails with an error no rule knows: it is raised
LegacyFail ==
    /\ pc = "legacy_dispatch"
    /\ LegacyRaise([fout EXCEPT !.requests =
                        Append(@, sent_messages(fout.chat_params.messages))],
                   ProviderError("other", <<>>, None))
    /\ UNCHANGED <<orchestrator_vars, fin>>

LegacyNext ==
    \/ LegacyInvokeChat
    \/ \E resp \in LegacyResponses, behaviour \in ToolBehaviours :
          LegacyRespond(resp, behaviour)
    \/ LegacyToolsUnsupported
    \/ LegacyFail

SpecLegacy == LegacyInit /\ [][LegacyNext]_vars

-----------------------------------------------------------------------------
(* Successive top-level calls on one orchestrator.  A caller makes invoke    *)
(* calls one after the other, each started when the one before has returned *)
(* or raised, and may call configure_stream_handler between them.  What     *)
(* outlives a call is the history, the stream handler and the tool          *)
(* managers.  fin counts the calls that are over, fout keeps the length of  *)
(* tool_log when the current call started.                                  *)

MaxInvokes == 2

\* the call the caller repeats
TurnCall == Params(PlainKnobs, <<>>, <<"ping">>, BothTools, "ctx", FALSE)

\* the provider's answers in this study
TurnResponses ==
    { [content |-> <<"pong">>, tool_calls |-> <<>>],
      [content |-> <<>>,
       tool_calls |-> <<ToolCall("call-1", "function", "echo_tool", GoodArgs)>>],
      [content |-> <<>>,
       tool_calls |-> <<ToolCall("call-1", "function", "echo_tool", GoodArgs),
                        ToolCall("call-2", "function", "ctx_tool", GoodArgs)>>] }

TurnsInit ==
    /\ pc = "idle"
    /\ OrchestratorUnused
    /\ fin = 0
    /\ fout = 0

\* configure_stream_handler(handler) between two calls
Reconfigure(handler) ==
    /\ pc \in {"done", "failed"}
    /\ stream_handler' = handler
    /\ last_signature' = base_signature
    /\ is_clone' = TRUE
    /\ UNCHANGED <<pc, api, params, prepared, request, frames, history,
                   base_signature, sink, cs, pending, calls, results,
                   assistant_content, result, error, obs, tool_log, study>>

\* the caller starts the next invoke(p) after the one before is over
InvokeAgain(p, entry) ==
    /\ pc \in {"done", "failed"}
    /\ fin + 1 < MaxInvokes
    /\ LET prep == prepare(p, history)
       IN /\ prepared' = prep
          /\ request' = prep.request
          /\ obs' = [NoObs EXCEPT !.supplied = prep.original_messages,
                                  !.hist0 = history,
                                  !.top_params = p]
    /\ params' = [p EXCEPT !.messages = caller_messages(p, history)]
    /\ api' = entry
    /\ pc' = "dispatch"
    /\ frames' = 0
    /\ pending' = <<>>
    /\ calls' = <<>>
    /\ results' = <<>>
    /\ assistant_content' = <<>>
    /\ result' = <<>>
    /\ error' = NoExc
    /\ fin' = fin + 1
    /\ fout' = Len(tool_log)
    /\ UNCHANGED <<history, last_signature, base_signature, is_clone,
                   stream_handler, sink, cs, tool_log>>

TurnsNext ==
    \/ \E handler \in BOOLEAN : ConfigureStreamHandler(handler)
    \/ Invoke(TurnCall, "invoke")
    \/ \E handler \in BOOLEAN : Reconfigure(handler)
    \/ InvokeAgain(TurnCall, "invoke")
    \/ \E resp \in TurnResponses : ExecuteChatOk(resp)
    \/ \E behaviour \in ToolBehaviours : ToolStep(behaviour)

SpecTurns == TurnsInit /\ [][TurnsNext]_vars

-----------------------------------------------------------------------------
(* LLMClient.invoke_model: one request per candidate model until a response *)
(* is read.  fin holds the client and the arguments of the call, fout the   *)
(* position in the candidate models, the provider calls made so far and the *)
(* value returned.                                                          *)

\* the configured model lists of the clients studied
ClientModelLists ==
    { <<"m1">>, <<"m1", "m2">>, <<"m1", "m2", "m3">>, <<"m1", "m1">>,
      <<"m2", "m1", "m2">> }

\* max_tokens and max_completion_tokens as the caller passes them (default 0)
TokenArguments ==
    { [max_tokens |-> 0, max_completion_tokens |-> 0],
      [max_tokens |-> 500, max_completion_tokens |-> 0],
      [max_tokens |-> 0, max_completion_tokens |-> 5000],
      [max_tokens |-> 500, max_completion_tokens |-> 1200] }

\* transport.available_models(preferred): the models iter_models yields
available_models(models, preferred) ==
    (IF Truthy(preferred) /\ preferred \in Range(models) THEN <<preferred>> ELSE <<>>)
    \o SelectSeq(models, LAMBDA model : ~skip_model(preferred, model))

\* _candidate_models of a client
candidate_models(client) == available_models(client.models, client.user_selected_model)

\* req_max_tokens: max(max_tokens, max_completion_tokens) or None, capped by
\* the client's max_completion_tokens
req_max_tokens(max_tokens, max_completion_tokens) ==
    LET requested == IF max_tokens >= max_completion_tokens
                     THEN max_tokens ELSE max_completion_tokens
    IN IF requested = 0 THEN <<>>
       ELSE IF requested > ProviderMaxCompletionTokens
       THEN <<ProviderMaxCompletionTokens>>
       ELSE <<requested>>

\* the request invoke_model builds for a candidate model
ClientRequest(a, model_id) ==
    ChatRequest(<<UserMsg(a.prompt)>>, model_id, DefaultTemperature,
                req_max_tokens(a.max_tokens, a.max_completion_tokens),
                None, <<>>, FALSE)

\* what execute_chat(request) does for the client: it raises, or it returns a
\* response without choices, or one whose first message has content None or a
\* text
ChatOutcomes(model_id) ==
    { [kind |-> "raise", is_none |-> TRUE, text |-> <<>>],
      [kind |-> "no_choices", is_none |-> TRUE, text |-> <<>>],
      [kind |-> "content", is_none |-> TRUE, text |-> <<>>],
      [kind |-> "content", is_none |-> FALSE, text |-> <<"answer of ", model_id>>] }

\* a loop that returns whatever the first provider call left, read or not
readable_always(outcome) == outcome.kind # "raise"

\* response.choices[0].message.content is evaluated without an exception
readable(outcome) == outcome.kind = "content"

NoneValue == [is_none |-> TRUE, text |-> <<>>]

FallbackInit ==
    /\ pc = "invoke_model"
    /\ OrchestratorUnused
    /\ fin \in [models : ClientModelLists,
                user_selected_model : PreferredModels,
                prompt : {<<"ping">>},
                tokens : TokenArguments]
    /\ fout = [position |-> 1, calls |-> <<>>, returned |-> FALSE, value |-> NoneValue]

\* one iteration of the loop over the candidate models
InvokeModelStep(outcome) ==
    /\ pc = "invoke_model"
    /\ fout.position <= Len(candidate_models(fin))
    /\ LET model_id == candidate_models(fin)[fout.position]
           a == [prompt |-> fin.prompt, max_tokens |-> fin.tokens.max_tokens,
                 max_completion_tokens |-> fin.tokens.max_completion_tokens]
           sent == ClientRequest(a, model_id)
           call == [model |-> model_id, outcome |-> outcome,
                    max_tokens |-> build_payload(sent).max_tokens]
       IN /\ outcome \in ChatOutcomes(model_id)
          /\ IF readable(outcome)
             THEN /\ fout' = [fout EXCEPT !.calls = Append(@, call),
                                          !.returned = TRUE,
                                          !.value = [is_none |-> outcome.is_none,
                                                     text |-> outcome.text]]
                  /\ pc' = "invoke_model_done"
             ELSE /\ fout' = [fout EXCEPT !.calls = Append(@, call),
                                          !.position = @ + 1]
                  /\ pc' = pc
    /\ UNCHANGED <<orchestrator_vars, fin>>

\* the candidate models are exhausted: return None
InvokeModelExhausted ==
    /\ pc = "invoke_model"
    /\ fout.position > Len(candidate_models(fin))
    /\ fout' = [fout EXCEPT !.returned = TRUE, !.value = NoneValue]
    /\ pc' = "invoke_model_done"
    /\ UNCHANGED <<orchestrator_vars, fin>>

FallbackNext ==
    \/ \E model_id \in ModelNames : \E outcome \in ChatOutcomes(model_id) :
           InvokeModelStep(outcome)
    \/ InvokeModelExhausted

SpecFallback == FallbackInit /\ [][FallbackNext]_vars

-----------------------------------------------------------------------------
(* LLMClient.invoke_model_generator: the candidate models are streamed one  *)
(* after the other until a stream ends with some text.  fin holds the       *)
(* client and the arguments, fout the position in the models, the text of   *)
(* the current stream and every chunk yielded to the consumer.              *)

MaxClientChunks == 2

\* the arguments of the generator calls studied
GeneratorArguments ==
    [prompt : {<<"ping">>},
     system_prompt : {<<>>, <<"sys">>},
     model_id : {None, "m3"},
     tokens : { [max_tokens |-> 0, max_completion_tokens |-> 16000],
                [max_tokens |-> 500, max_completion_tokens |-> 0] }]

\* models = [model_id] if model_id else list(self._candidate_models())
generator_models(client, a) ==
    IF Truthy(a.model_id) THEN <<a.model_id>> ELSE candidate_models(client)

\* max(max_tokens, max_completion_tokens, self.max_completion_tokens), capped
\* by self.max_completion_tokens
generator_max_tokens(a) ==
    LET larger == IF a.tokens.max_tokens >= a.tokens.max_completion_tokens
                  THEN a.tokens.max_tokens ELSE a.tokens.max_completion_tokens
        requested == IF larger >= ProviderMaxCompletionTokens
                     THEN larger ELSE ProviderMaxCompletionTokens
    IN IF requested # 0 /\ requested > ProviderMaxCompletionTokens
       THEN ProviderMaxCompletionTokens
       ELSE requested

\* the request streamed for a candidate model
GeneratorRequest(a, candidate) ==
    ChatRequest((IF a.system_prompt # <<>> THEN <<SystemMsg(a.system_prompt)>> ELSE <<>>)
                    \o <<UserMsg(a.prompt)>>,
                candidate, DefaultTemperature, <<generator_max_tokens(a)>>,
                None, <<>>, FALSE)

GeneratorInit ==
    /\ pc = "generator"
    /\ OrchestratorUnused
    /\ fin \in [models : {<<"m1">>, <<"m1", "m2">>, <<"m1", "m2", "m3">>},
                user_selected_model : {None, "m2"},
                arguments : GeneratorArguments]
    /\ fout = [position |-> 1, chunks |-> 0, response_text |-> <<>>,
               yielded |-> <<>>, requests |-> <<>>]

\* the loop takes the next candidate and calls stream_chat
GeneratorOpen ==
    /\ pc = "generator"
    /\ fout.position <= Len(generator_models(fin, fin.arguments))
    /\ LET candidate == generator_models(fin, fin.arguments)[fout.position]
       IN fout' = [fout EXCEPT !.chunks = 0,
                               !.response_text = <<>>,
                               !.requests = Append(@, GeneratorRequest(fin.arguments,
                                                                       candidate))]
    /\ pc' = "generator_stream"
    /\ UNCHANGED <<orchestrator_vars, fin>>

\* the stream delivers a chunk: its content, if any, is yielded
GeneratorChunk(has_content) ==
    /\ pc = "generator_stream"
    /\ fout.chunks < MaxClientChunks
    /\ LET candidate == generator_models(fin, fin.arguments)[fout.position]
           resp_chunk == <<candidate, ":", fout.chunks + 1>>
       IN fout' = IF has_content
                  THEN [fout EXCEPT !.chunks = @ + 1,
                                    !.response_text = Append(@, resp_chunk),
                                    !.yielded = Append(@, [model |-> candidate,
                                                           stream |-> fout.position,
                                                           chunk |-> resp_chunk])]
                  ELSE [fout EXCEPT !.chunks = @ + 1]
    /\ UNCHANGED <<pc, orchestrator_vars, fin>>

\* the provider call, the stream or the read of a chunk raises: the error is
\* logged and the loop goes on with the next candidate
GeneratorRaise ==
    /\ pc = "generator_stream"
    /\ fout' = [fout EXCEPT !.position = @ + 1]
    /\ pc' = "generator"
    /\ UNCHANGED <<orchestrator_vars, fin>>

\* the stream is exhausted: break if it gave some text, else next candidate
GeneratorStreamEnd ==
    /\ pc = "generator_stream"
    /\ IF fout.response_text # <<>>
       THEN /\ pc' = "generator_done"
            /\ fout' = fout
       ELSE /\ pc' = "generator"
            /\ fout' = [fout EXCEPT !.position = @ + 1]
    /\ UNCHANGED <<orchestrator_vars, fin>>

\* no candidate is left: the generator returns
GeneratorExhausted ==
    /\ pc = "generator"
    /\ fout.position > Len(generator_models(fin, fin.arguments))
    /\ pc' = "generator_done"
    /\ UNCHANGED <<orchestrator_vars, fin, fout>>

GeneratorNext ==
    \/ GeneratorOpen
    \/ \E has_content \in BOOLEAN : GeneratorChunk(has_content)
    \/ GeneratorRaise
    \/ GeneratorStreamEnd
    \/ GeneratorExhausted

SpecGenerator == GeneratorInit /\ [][GeneratorNext]_vars

-----------------------------------------------------------------------------
(* Claims *)

\* C1: when the parsed response of a turn carries no tool calls, the call has
\* returned that response's assistant text and no provider call was made after
\* the response; a call without tool-calling responses and without provider
\* failures makes exactly one provider call.
C1_ToolFreeTurnReturns ==
    /\ (obs.parsed > 0 /\ obs.last_calls = <<>>) =>
          /\ pc = "done"
          /\ result = obs.last_text
          /\ obs.calls = obs.calls_at_parse
    /\ (pc = "done" /\ obs.tool_turns = 0 /\ obs.failures = 0) => obs.calls = 1

\* a tool-free invocation that returned "pong" after one provider call
C1_Witness ==
    /\ pc = "done"
    /\ obs.last_calls = <<>>
    /\ obs.tool_turns = 0
    /\ obs.failures = 0
    /\ obs.calls = 1
    /\ result = <<"pong">>

\* C2: with no provider failure and every parsed tool call naming a supplied
\* tool, every tool-calling response is followed by exactly one follow-up
\* request: after k tool-calling responses and a tool-free one, k + 1 provider
\* calls were made, every parsed call went through execute, and the value
\* returned is the assistant text of the last response.
C2_ToolLoopCallCount ==
    (obs.failures = 0 /\ obs.ghost_calls = 0) =>
        /\ pc = "done" =>
              /\ obs.calls = obs.tool_turns + 1
              /\ result = obs.last_text
              /\ obs.execute_calls = obs.parsed_calls
        /\ pc = "dispatch" => obs.calls = obs.tool_turns

\* Scenario B: one tool-calling response, the tool ran, then "pong"
C2_Witness ==
    /\ pc = "done"
    /\ obs.failures = 0
    /\ obs.ghost_calls = 0
    /\ obs.tool_turns = 1
    /\ obs.executed = 1
    /\ obs.calls = 2
    /\ result = <<"pong">>

\* the signature of a logged execute call
SignatureOf(e) == <<e.name, e.arguments, e.assistant_content>>

\* whether the logged call i repeats the call before it
RepeatsPrevious(log, i) == i > 1 /\ SignatureOf(log[i - 1]) = SignatureOf(log[i])

SkippedText(name) == <<"Skipped repeated tool call: ", name>>

\* C3 as stated: the first call of every run of two or more identical
\* consecutive execute calls invokes the callable, and every later call of the
\* run is answered with the "Skipped repeated tool call" text without invoking it.
C3_RunInvokesExactlyOnce ==
    \A i \in 1..Len(tool_log) :
        /\ (i < Len(tool_log) /\ ~RepeatsPrevious(tool_log, i)
               /\ RepeatsPrevious(tool_log, i + 1)) => tool_log[i].invoked
        /\ RepeatsPrevious(tool_log, i) =>
              /\ ~tool_log[i].invoked
              /\ tool_log[i].messages[2].content = SkippedText(tool_log[i].name)

\* C3: in a run of identical consecutive execute calls the callable is invoked
\* at most once: on the first call, and only if the argument text is empty or
\* a JSON object; every later call of the run is answered with the "Skipped
\* repeated tool call" text and does not invoke it.  A call that differs from
\* the call before it in name, argument text or assistant content is not
\* skipped: it reaches the callable under the same condition on its arguments.
C3_AntiLoop ==
    \A i \in 1..Len(tool_log) :
        LET e == tool_log[i]
        IN /\ Len(e.messages) = 2
           /\ RepeatsPrevious(tool_log, i) =>
                 /\ ~e.invoked
                 /\ e.messages[2].content = SkippedText(e.name)
           /\ ~RepeatsPrevious(tool_log, i) =>
                 /\ e.invoked <=> e.arguments \in {<<>>, GoodArgs}
                 /\ e.messages[2].content # SkippedText(e.name)

\* a run of two identical calls whose first raised, then a call that differs
\* in the assistant content only and is executed
C3_Witness ==
    /\ Len(tool_log) = 3
    /\ RepeatsPrevious(tool_log, 2)
    /\ tool_log[1].invoked /\ tool_log[1].raises
    /\ ~tool_log[2].invoked
    /\ tool_log[3].name = tool_log[2].name
    /\ tool_log[3].arguments = tool_log[2].arguments
    /\ tool_log[3].assistant_content # tool_log[2].assistant_content
    /\ tool_log[3].invoked

\* whether the logged call i failed: it was not skipped, and its argument
\* text is no JSON object or the callable raised
ToolFailed(log, i) ==
    /\ ~RepeatsPrevious(log, i)
    /\ (log[i].raises \/ log[i].arguments \notin {<<>>, GoodArgs})

\* C4: an execute call that fails, in parsing the arguments or in the tool,
\* still returns [call record, result message], the result content being the
\* JSON-quoted text "Error executing tool <name>: ..."; a call with tool
\* failures and no provider failure has not failed and carries no exception;
\* the follow-up of a tool round is dispatched as prepared, untouched by the
\* recovery rules, with the round's result messages at the end of its request.
C4_ToolFailureContinues ==
    /\ \A i \in 1..Len(tool_log) :
          LET e == tool_log[i]
              content == e.messages[2].content
          IN ToolFailed(tool_log, i) =>
                /\ Len(e.messages) = 2
                /\ e.messages[1] = CallRecord(e.id, e.type, e.name, e.arguments)
                /\ e.messages[2].role = "tool"
                /\ e.messages[2].tool_call_id = e.id
                /\ e.messages[2].name = e.name
                /\ IsPrefix(<<"\"", "Error executing tool ", e.name, ": ">>, content)
                /\ Len(content) > 5
                /\ content[Len(content)] = "\""
    /\ (obs.tool_failures > 0 /\ obs.failures = 0) =>
          /\ pc \in {"tools", "dispatch", "stream", "done"}
          /\ error = NoExc
    /\ (pc = "dispatch" /\ obs.tool_turns > 0 /\ obs.turn_calls = 0) =>
          /\ frames = 0
          /\ obs.errors = <<>>
          /\ request = prepared.request
          /\ results # <<>>
          /\ Len(request.messages) >= Len(results)
          /\ Suffix(request.messages, Len(results)) = results

\* a call whose only tool call carried unparsable arguments and which went on
\* to its follow-up request and returned
C4_Witness ==
    /\ pc = "done"
    /\ obs.failures = 0
    /\ obs.tool_failures = 1
    /\ obs.calls = 2
    /\ Len(tool_log) = 1
    /\ tool_log[1].arguments = BadArgs
    /\ ~tool_log[1].invoked

ToolsUnsupported == ProviderError("tools_unsupported", <<>>, None)

\* C5: when the first attempt of a non-streaming dispatch that requested tools
\* fails with the tools-unsupported error, the retry's request is the prepared
\* request with tools removed and with every tool-role message and every
\* message carrying tool_calls removed, all other fields unchanged; when a
\* response follows, it came from that one retry (two provider calls in the
\* dispatch), it is the response used, and the caller sees no error.
C5_ToolsUnsupportedRetry ==
    (api = "invoke" /\ obs.errors = <<ToolsUnsupported>>
       /\ prepared.request.tools # <<>>) =>
        /\ pc \in {"dispatch", "tools", "done"}
        /\ error = NoExc
        /\ request = [prepared.request EXCEPT
                         !.tools = <<>>,
                         !.messages = SelectSeq(@, LAMBDA m :
                                          m.role # "tool" /\ m.tool_calls = <<>>)]
        /\ pc = "dispatch" => (frames = 1 /\ obs.turn_calls = 1)
        /\ pc \in {"tools", "done"} =>
              /\ obs.turn_calls = 2
              /\ assistant_content = obs.last_text
        /\ pc = "done" => result = obs.last_text

\* Scenario D with a supplied conversation that holds a tool round: the retry
\* succeeded with "pong"
C5_Witness ==
    /\ pc = "done"
    /\ api = "invoke"
    /\ obs.errors = <<ToolsUnsupported>>
    /\ prepared.request.tools # <<>>
    /\ \E i \in 1..Len(prepared.request.messages) :
          prepared.request.messages[i].role = "tool"
    /\ \E i \in 1..Len(prepared.request.messages) :
          prepared.request.messages[i].tool_calls # <<>>
    /\ obs.turn_calls = 2
    /\ result = <<"pong">>

\* C6: when the last provider error of a dispatch matches none of the recovery
\* rules, the call has failed, the exception that reached the caller is that
\* error itself, and every provider call of the dispatch is one of the
\* recorded failures: none was made after it.
C6_FatalErrorSurfaces ==
    (obs.errors # <<>> /\ obs.errors[Len(obs.errors)].kind = "other") =>
        /\ pc = "failed"
        /\ error = obs.errors[Len(obs.errors)]
        /\ obs.turn_calls = Len(obs.errors)
        /\ result = <<>>

\* invoke: a recovered temperature error, then an unrecognised error
C6_Witness ==
    /\ pc = "failed"
    /\ api = "invoke"
    /\ Len(obs.errors) = 2
    /\ obs.errors[1].kind = "temperature"
    /\ obs.errors[2].kind = "other"
    /\ error = ProviderError("other", <<>>, None)
    /\ obs.calls = 2

\* the history entries recorded since the top-level call began
RecordedSince == SubSeq(history, Len(obs.hist0) + 1, Len(history))

\* C7: once a call has returned or failed, every message the caller supplied
\* (the supplied messages, or the prompt wrapped as one user message) and every
\* original message of the last follow-up call is among the history entries
\* recorded since the call began.
C7_HistoryRecorded ==
    pc \in {"done", "failed"} =>
        /\ obs.supplied # <<>>
        /\ \A i \in 1..Len(obs.supplied) : obs.supplied[i] \in Range(RecordedSince)
        /\ \A i \in 1..Len(prepared.original_messages) :
              prepared.original_messages[i] \in Range(RecordedSince)

\* invoke with a supplied conversation: a recovered error, then a fatal one
C7_Witness ==
    /\ pc = "failed"
    /\ api = "invoke"
    /\ Len(obs.errors) = 2
    /\ obs.supplied = SuppliedConversation
    /\ \A i \in 1..4 : SuppliedConversation[i] \in Range(RecordedSince)

\* Scenario A: a successful tool-free invoke with a bare prompt has returned
ScenarioA ==
    /\ pc = "done"
    /\ api = "invoke"
    /\ params.messages = <<>>
    /\ params.prompt # <<>>
    /\ obs.calls = 1
    /\ obs.failures = 0
    /\ obs.tool_turns = 0

\* C8 as stated: over Scenario A the history grows by exactly one entry.
C8_OneEntryRecorded == ScenarioA => Len(history) = Len(obs.hist0) + 1

\* C8: over Scenario A the history grows by exactly two entries: the prompt as
\* a user message, then the assistant text that was returned.
C8_TwoEntriesRecorded ==
    ScenarioA =>
        history = obs.hist0 \o <<UserMsg(params.prompt), AssistantMsg(result)>>

\* prompt "ping" answered with "pong"
C8_Witness ==
    /\ ScenarioA
    /\ params.prompt = <<"ping">>
    /\ result = <<"pong">>
    /\ Len(history) = Len(obs.hist0) + 2

\* tokens of a list of messages
TokensOf(ms) == SumSeq([i \in 1..Len(ms) |-> count_message_tokens(ms[i])])

\* the last n entries of the history
LastEntries(n) == Suffix(history, Min(n, Len(history)))

\* the lengths k for which the k newest of the last n entries fit the budget
\* together with the new turn
FittingLengths(n, messages) ==
    {k \in 0..Len(LastEntries(n)) :
        TokensOf(Suffix(LastEntries(n), k)) + TokensOf(messages) <= MAX_INPUT_TOKENS}

\* C9: _extend_history returns the new messages preceded by the longest suffix
\* of the last n history entries whose tokens, added to those of the new
\* messages, do not exceed MAX_INPUT_TOKENS, in chronological order; nothing is
\* prepended when the new messages alone exceed the budget.
C9_TokenBudget ==
    pc = "extended" =>
        LET n == fin.include_history
            fitting == FittingLengths(n, fin.messages)
            longest == IF fitting = {} THEN 0
                       ELSE CHOOSE k \in fitting : \A j \in fitting : j <= k
        IN /\ fout = Suffix(LastEntries(n), longest) \o fin.messages
           /\ TokensOf(fin.messages) > MAX_INPUT_TOKENS => fout = fin.messages
           /\ longest > 0 => TokensOf(fout) <= MAX_INPUT_TOKENS

\* three entries asked of a history of three; the newest fits, the one before
\* it does not, and the oldest would fit again
C9_Witness ==
    /\ pc = "extended"
    /\ Len(history) = 3
    /\ fin.include_history = 3
    /\ fout = <<history[3]>> \o fin.messages
    /\ TokensOf(<<history[1], history[3]>>) + TokensOf(fin.messages) <= MAX_INPUT_TOKENS

\* a text with its newline characters removed
RemoveNewlines(text) == SelectSeq(text, LAMBDA c : c # "\n")

\* Scenario C: a top-level invoke_stream with a configured sink whose only
\* stream carried no tool-call delta
ScenarioC ==
    /\ api = "invoke_stream"
    /\ obs.calls = 1
    /\ obs.tool_deltas = 0
    /\ stream_handler

\* C10 as stated: the returned text is the concatenation of the content deltas,
\* and the strings delivered to the sink, concatenated with the newline
\* characters removed, equal the returned text.
C10_SinkEqualsReturned ==
    (ScenarioC /\ pc = "done") =>
        /\ result = Concat(obs.deltas)
        /\ RemoveNewlines(Concat(sink)) = result

\* C10: the returned text is the in-order concatenation of the content deltas;
\* while the stream is consumed the sink has received exactly the deltas
\* consumed so far; once the call has returned, the strings delivered to the
\* sink, concatenated with newlines removed, equal the returned text with its
\* newlines removed.
C10_StreamText ==
    /\ (api = "invoke_stream" /\ obs.calls = 1 /\ obs.tool_deltas = 0 /\ pc = "done") =>
          result = Concat(obs.deltas)
    /\ (ScenarioC /\ pc = "stream") =>
          /\ sink = obs.deltas
          /\ cs.assistant_content = Concat(obs.deltas)
    /\ (ScenarioC /\ pc = "done") =>
          /\ sink = Append(obs.deltas, <<"\n">>)
          /\ RemoveNewlines(Concat(sink)) = RemoveNewlines(result)

\* chunks "hi " and "there": "hi there" is returned and the sink received both
C10_Witness ==
    /\ ScenarioC
    /\ pc = "done"
    /\ result = <<"hi ", "there">>
    /\ sink = << <<"hi ">>, <<"there">>, <<"\n">> >>

\* the last provider error of the current dispatch
LastError == obs.errors[Len(obs.errors)]

\* whether the recovery rules turn this error into an updated request
IsRecoverable(req, exc) ==
    LET updated == adjust_request_on_error(req, exc)
    IN updated.ok /\ ~updated.is_none

\* C11: when the provider call behind invoke_stream fails with an error for
\* which the recovery rules give an updated request, the call has not failed
\* and no exception has reached the caller.
C11_StreamFailureRecovered ==
    (api = "invoke_stream" /\ obs.errors # <<>>
       /\ IsRecoverable(prepared.request, LastError)) =>
        /\ pc # "failed"
        /\ error = NoExc

\* the messages after a leading system message
TailOf(messages) ==
    IF messages # <<>> /\ messages[1].role = "system" THEN Tail(messages) ELSE messages

\* the leading system message, if there is one
LeadingSystemOf(messages) ==
    IF messages # <<>> /\ messages[1].role = "system" THEN <<messages[1]>> ELSE <<>>

\* C12: after the first attempt of a dispatch failed with the input-too-long
\* error on a request with at least two non-system messages, the retried
\* request keeps the leading system message and holds a strictly shorter,
\* non-empty suffix of the non-system messages; every other field is unchanged.
C12_ReducedIsShorter ==
    (api = "invoke" /\ pc = "dispatch" /\ Len(obs.errors) = 1
       /\ obs.errors[1].kind = "input_too_long"
       /\ Len(TailOf(prepared.request.messages)) >= 2) =>
        LET before == prepared.request.messages
            after == request.messages
        IN /\ LeadingSystemOf(after) = LeadingSystemOf(before)
           /\ \E k \in 1..(Len(TailOf(before)) - 1) :
                 TailOf(after) = Suffix(TailOf(before), k)
           /\ request = [prepared.request EXCEPT !.messages = after]

\* C13: when a non-streaming dispatch has failed on the input-too-long error
\* with exactly one non-system message in the request, the exception that
\* reached the caller is that provider error and no provider call followed it.
C13_SingleMessageFatal ==
    (api = "invoke" /\ pc = "failed" /\ obs.errors # <<>>
       /\ LastError.kind = "input_too_long"
       /\ Len(TailOf(request.messages)) = 1) =>
        /\ error = LastError
        /\ obs.turn_calls = Len(obs.errors)

\* C14: when a non-streaming dispatch has failed on a rate-limit error, three
\* attempts were made with the same request and each ended in the rate-limit
\* error.
C14_RateLimitRetried ==
    (api = "invoke" /\ pc = "failed" /\ obs.errors # <<>>
       /\ LastError.kind = "rate_limit") =>
        /\ Len(obs.errors) >= 3
        /\ \A i \in (Len(obs.errors) - 2)..Len(obs.errors) :
              obs.errors[i].kind = "rate_limit"
        /\ error = LastError

\* C15: after the first attempt of a dispatch failed with "got an unexpected
\* keyword argument '<p>'", the payload of the retried request no longer
\* carries <p> and carries every other parameter as the failed request did
\* (the messages without the tool-shaped ones when <p> is tools).
C15_UnexpectedParamRemoved ==
    (api = "invoke" /\ pc = "dispatch" /\ Len(obs.errors) = 1
       /\ obs.errors[1].kind = "unexpected_kwarg") =>
        LET p == obs.errors[1].param
            failed == build_payload(prepared.request)
            retried == build_payload(request)
        IN /\ p \notin WireParams(request)
           /\ \A q \in PayloadKeys \ {p, "messages"} : retried[q] = failed[q]
           /\ retried.messages =
                 IF p = "tools"
                 THEN <<SelectSeq(prepared.request.messages,
                                  LAMBDA m : m.role # "tool" /\ m.tool_calls = <<>>)>>
                 ELSE failed.messages

\* a non-streaming dispatch is about to retry after an attempt that failed
Retrying == api = "invoke" /\ pc = "dispatch" /\ obs.errors # <<>>

\* C16: when an attempt failed with the maximum-tokens error naming the limit
\* L, the retried request is the failed request with max_completion_tokens = L
\* and every other field unchanged, and the ceiling its payload carries is at
\* most L.
C16_CompletionTokenClamp ==
    (Retrying /\ LastError.kind = "max_tokens" /\ LastError.limit # <<>>) =>
        /\ request = [obs.failed_req EXCEPT !.max_completion_tokens = LastError.limit]
        /\ build_payload(request).max_tokens # <<>>
        /\ build_payload(request).max_tokens[1] <= LastError.limit[1]

\* a request asking for 2000 tokens is retried with the limit 1000 of the error
C16_Witness ==
    /\ Retrying
    /\ LastError = ProviderError("max_tokens", <<1000>>, None)
    /\ obs.failed_req.max_completion_tokens = <<2000>>
    /\ request.max_completion_tokens = <<1000>>
    /\ build_payload(request).max_tokens = <<1000>>
    /\ request.tools # <<>>

\* C17: (a) the prepared request's model is params.model if given, else the
\* primary model; its temperature is 1.0 if that model's name begins with
\* "gpt-5", else the caller's value.  (b) when an attempt failed with the
\* temperature error, the retried request is the failed request with
\* temperature 1.0 and every other field unchanged.
C17_FixedTemperature ==
    /\ pc # "idle" =>
          LET model == IF params.model # <<>> THEN params.model ELSE Models[1]
          IN /\ prepared.request.model = model
             /\ prepared.request.temperature =
                   IF Head(model) = "gpt-5" THEN 10 ELSE params.temperature
    /\ (Retrying /\ LastError.kind = "temperature") =>
          request = [obs.failed_req EXCEPT !.temperature = 10]

\* a call with temperature 0.7 on the primary model is prepared with 0.7 and,
\* after the temperature error, retried with 1.0
C17_Witness ==
    /\ Retrying
    /\ LastError.kind = "temperature"
    /\ params.model = <<>>
    /\ params.temperature = 7
    /\ prepared.request.temperature = 7
    /\ prepared.request.model = <<"stub-model">>
    /\ request.temperature = 10

\* the parsed tool calls of the last response that name a supplied tool
MappedCalls ==
    SelectSeq(obs.last_calls, LAMBDA tc : tc.name \in Range(obs.top_params.tools))

\* a follow-up call is under way: its request is not yet answered
InFollowUp == pc \in {"dispatch", "stream"} /\ obs.tool_turns > 0

\* C18: the messages of a follow-up call are one assistant message, holding
\* the assistant text of the tool-calling response and, as tool_calls, the call
\* records of the executed calls in parse order, followed by one tool-role
\* result message per executed call in the same order, the i-th answering the
\* i-th call record; every other parameter is that of the top-level call.
C18_FollowUpStructure ==
    InFollowUp =>
        /\ Len(params.messages) = Len(MappedCalls) + 1
        /\ params.messages[1] =
              [AssistantMsg(obs.last_text) EXCEPT !.tool_calls =
                  [i \in 1..Len(MappedCalls) |->
                      [id |-> MappedCalls[i].id, type |-> MappedCalls[i].type,
                       function |-> [name |-> MappedCalls[i].name,
                                     arguments |-> MappedCalls[i].arguments]]]]
        /\ \A i \in 1..Len(MappedCalls) :
              /\ params.messages[i + 1].role = "tool"
              /\ params.messages[i + 1].tool_call_id = MappedCalls[i].id
              /\ params.messages[i + 1].tool_call_id = params.messages[1].tool_calls[i].id
              /\ params.messages[i + 1].name = MappedCalls[i].name
              /\ params.messages[i + 1] = results[i]
        /\ \A f \in {"model", "tools", "temperature", "reasoning_effort",
                     "system_prompt", "context", "max_completion_tokens",
                     "include_history", "stream"} :
              params[f] = obs.top_params[f]

\* the follow-up of a response with two calls, echo_tool then ctx_tool
C18_Witness ==
    /\ InFollowUp
    /\ obs.tool_turns = 1
    /\ Len(params.messages) = 3
    /\ params.messages[1].tool_calls[1].id = "call-1"
    /\ params.messages[1].tool_calls[2].id = "call-2"
    /\ params.messages[2].tool_call_id = "call-1"
    /\ params.messages[3].tool_call_id = "call-2"
    /\ params.messages[3].name = "ctx_tool"

\* C19: a parsed tool call that names no supplied tool is never executed and
\* raises nothing; it contributes no call record and no result message, while
\* the mapped calls of the same response are executed in parse order; when
\* every parsed call is unmapped the assistant text of that response is
\* returned without a further provider call.
C19_UnmappedSkipped ==
    /\ \A i \in 1..Len(tool_log) : tool_log[i].name \in Range(obs.top_params.tools)
    /\ Len(tool_log) = obs.execute_calls
    /\ (obs.ghost_calls > 0 /\ obs.failures = 0) => (pc # "failed" /\ error = NoExc)
    /\ InFollowUp =>
          /\ MappedCalls # <<>>
          /\ Len(calls) = Len(MappedCalls)
          /\ Len(results) = Len(MappedCalls)
          /\ Len(tool_log) >= Len(MappedCalls)
          /\ \A i \in 1..Len(MappedCalls) :
                /\ calls[i].id = MappedCalls[i].id
                /\ calls[i].function.name = MappedCalls[i].name
                /\ tool_log[Len(tool_log) - Len(MappedCalls) + i].id = MappedCalls[i].id
                /\ tool_log[Len(tool_log) - Len(MappedCalls) + i].name = MappedCalls[i].name
    /\ (pc = "done" /\ obs.last_calls # <<>>) =>
          /\ MappedCalls = <<>>
          /\ result = obs.last_text
          /\ obs.calls = obs.calls_at_parse
          /\ calls = <<>> /\ results = <<>>

\* a response with the text "note" and one call of an unknown tool: "note" is
\* returned after the one provider call, and nothing was executed
C19_Witness ==
    /\ pc = "done"
    /\ obs.ghost_calls = 1
    /\ obs.execute_calls = 0
    /\ obs.calls = 1
    /\ obs.top_params.tools # <<>>
    /\ result = <<"note">>
    /\ tool_log = <<>>

\* the tool-call deltas of a stream, in order of arrival
RECURSIVE DeltasOf(_)
DeltasOf(stream) ==
    IF stream = <<>> THEN <<>>
    ELSE (IF Head(stream).has_delta THEN Head(stream).tool ELSE <<>>)
         \o DeltasOf(Tail(stream))

\* a stream as providers send it: the terminating finish reason "tool_calls"
\* comes with the last chunk and no finish reason before it; the indexes of
\* the deltas start at 0 and never go back or skip; the first delta of an
\* index carries the call's id and name, the later ones only arguments
WellFormedStream(stream) ==
    LET ds == DeltasOf(stream)
    IN /\ stream # <<>>
       /\ stream[Len(stream)].has_delta
       /\ stream[Len(stream)].finish_reason = "tool_calls"
       /\ \A j \in 1..(Len(stream) - 1) : stream[j].finish_reason = None
       /\ ds # <<>>
       /\ ds[1].index = 0
       /\ \A j \in 2..Len(ds) : ds[j].index \in {ds[j - 1].index, ds[j - 1].index + 1}
       /\ \A j \in 1..Len(ds) :
             (j = 1 \/ ds[j].index # ds[j - 1].index) <=> ds[j].id # None

\* the tool calls begun in a well-formed stream, in index order, each with
\* the concatenation of its argument fragments
CallsBegunIn(stream) ==
    LET ds == DeltasOf(stream)
        count == ds[Len(ds)].index + 1
        OfIndex(i) == SelectSeq(ds, LAMBDA d : d.index = i)
    IN [n \in 1..count |->
           LET mine == OfIndex(n - 1)
           IN ToolCall(mine[1].id, mine[1].type, mine[1].name,
                       Concat([j \in 1..Len(mine) |-> mine[j].arguments]))]

\* C20: for a well-formed stream _consume_stream returns every tool call begun
\* in the stream exactly once, in index order, with the concatenation of its
\* argument fragments as argument text.
C20_AllCallsAccumulated ==
    (pc = "consumed" /\ WellFormedStream(fin)) => fout = CallsBegunIn(fin)

\* the same for the well-formed streams whose chunks carry at most one
\* tool-call delta each
StreamOfSingleDeltasAccumulates ==
    (pc = "consumed" /\ WellFormedStream(fin)
       /\ \A j \in 1..Len(fin) : Len(fin[j].tool) <= 1) =>
        fout = CallsBegunIn(fin)

\* two calls sent one delta per chunk, the first in two fragments: both are returned
StreamOfSingleDeltasReached ==
    /\ pc = "consumed"
    /\ WellFormedStream(fin)
    /\ \A j \in 1..Len(fin) : Len(fin[j].tool) <= 1
    /\ fout = <<ToolCall("call-1", "function", "echo_tool", <<"{", "k", "}">>),
                ToolCall("call-2", "function", "ctx_tool", <<"{", "}">>)>>

\* every result message of the round is the "Skipped repeated tool call" text
RoundWhollySkipped ==
    /\ results # <<>>
    /\ \A i \in 1..Len(results) : results[i].content = SkippedText(results[i].name)

\* C21: the skipped result ends the tool loop: after a round in which every
\* tool call was answered with the "Skipped repeated tool call" text no
\* follow-up request is sent to the provider, so that a provider which answers
\* every request with the same tool call is called finitely often.
C21_SkippedRoundEndsLoop ==
    (obs.tool_turns > 0 /\ RoundWhollySkipped) => pc \notin {"dispatch", "stream"}

\* the position, in the parsed response, of the tool call the loop is at
LoopPosition == Len(obs.last_calls) - Len(pending) + 1

\* a provider call is made in this step
ProviderCalled == obs'.calls # obs.calls

\* a tool call is handed to the tool manager in this step
ToolExecuted == tool_log' # tool_log

\* C22: single flight and sequential tool execution: a provider call is made
\* only while no other is in flight (no stream is being consumed) and no tool
\* call of the round is still to run; a tool is executed only after the
\* response or stream was completely parsed, one call per step, and the calls
\* of a round run in the order in which they were parsed.
C22_SingleFlight ==
    [][ /\ ProviderCalled =>
              /\ pc = "dispatch"
              /\ pending = <<>>
              /\ obs'.calls = obs.calls + 1
        /\ pc = "stream" => ~ToolExecuted
        /\ ToolExecuted =>
              /\ pc = "tools"
              /\ obs.calls_at_parse = obs.calls
              /\ ~ProviderCalled
              /\ Len(tool_log') = Len(tool_log) + 1
              /\ LoopPosition \in 1..Len(obs.last_calls)
              /\ tool_log'[Len(tool_log')].id = obs.last_calls[LoopPosition].id
              /\ tool_log'[Len(tool_log')].name = obs.last_calls[LoopPosition].name
              /\ pending' = Tail(pending)
      ]_vars

C22_Witness ==
    /\ pc = "dispatch"
    /\ obs.tool_turns = 1
    /\ Len(obs.last_calls) = 2
    /\ Len(results) = 2
    /\ Len(tool_log) = 2
    /\ tool_log[1].id = "call-1"
    /\ tool_log[2].id = "call-2"

\* the request carries the system prompt's message at this position
PromptAt(i) == request.messages[i] = SystemMsg(params.system_prompt)

\* C23: system message placement: when a system prompt is supplied, the
\* prepared request is the outgoing list (history prefix and the caller's
\* messages) with the prompt's system message put in front if that list does
\* not begin with a system message, and is the outgoing list itself if it
\* does; in every request sent, retries included, the prompt's message is at
\* no position but the first.
C23_SystemMessagePlacement ==
    (pc = "dispatch" /\ params.system_prompt # <<>>) =>
        /\ frames = 0 =>
              LET outgoing == outgoing_messages(params, history)
              IN IF outgoing = <<>> \/ outgoing[1].role # "system"
                 THEN request.messages = <<SystemMsg(params.system_prompt)>> \o outgoing
                 ELSE request.messages = outgoing
        /\ \A i \in 2..Len(request.messages) : ~PromptAt(i)

\* a follow-up request with history in front got the prompt at its head
C23_Witness ==
    /\ pc = "dispatch"
    /\ obs.tool_turns = 1
    /\ params.system_prompt # <<>>
    /\ params.include_history # 0
    /\ Len(request.messages) > 3
    /\ PromptAt(1)
    /\ request.messages[2].role # "system"

\* a list that begins with the caller's system message was left as it is
C23_WitnessOwnSystem ==
    /\ pc = "dispatch"
    /\ params.system_prompt # <<>>
    /\ request.messages = OwnSystemConversation

\* the context the top-level caller gave (None if none was given)
CallerContext == obs.top_params.context

\* C24: context injection: a stateless tool is never called with a context;
\* a stateful tool that is called receives the keyword context exactly when
\* the caller gave one, and what it receives is the caller's context, in
\* every round.
C24_ContextInjection ==
    \A i \in 1..Len(tool_log) :
        LET e == tool_log[i]
        IN /\ Stateless(e.name) => e.context = None
           /\ (~Stateless(e.name) /\ e.invoked) => e.context = CallerContext
           /\ e.context # None =>
                 (e.invoked /\ ~Stateless(e.name) /\ CallerContext # None)

\* two rounds: the stateful tool got the context in both, the stateless tool
\* ran without one
C24_Witness ==
    /\ obs.tool_turns = 2
    /\ CallerContext = "ctx"
    /\ \E i, j, k \in 1..Len(tool_log) :
          /\ i < j
          /\ tool_log[i].name = "ctx_tool" /\ tool_log[i].invoked
          /\ tool_log[i].context = "ctx"
          /\ tool_log[j].name = "ctx_tool" /\ tool_log[j].invoked
          /\ tool_log[j].context = "ctx"
          /\ tool_log[k].name = "echo_tool" /\ tool_log[k].invoked
          /\ tool_log[k].context = None

\* no element occurs twice
IsDistinct(q) == \A i, j \in 1..Len(q) : q[i] = q[j] => i = j

\* the list without the entries equal to x
RECURSIVE Without(_, _)
Without(q, x) ==
    IF q = <<>> THEN <<>>
    ELSE IF Head(q) = x THEN Without(Tail(q), x)
    ELSE <<Head(q)>> \o Without(Tail(q), x)

\* C25: for distinct configured models, iter_models (available_models) yields
\* the preferred model first when it is configured and then every other
\* model once in configured order; when the preferred model is absent or not
\* configured it yields the configured models in order; nothing is yielded
\* twice.
C25_IterModels ==
    (pc = "iterated" /\ IsDistinct(fin.models)) =>
        /\ IF Truthy(fin.preferred) /\ fin.preferred \in Range(fin.models)
           THEN fout.yielded = <<fin.preferred>> \o Without(fin.models, fin.preferred)
           ELSE fout.yielded = fin.models
        /\ IsDistinct(fout.yielded)
        /\ Range(fout.yielded) = Range(fin.models)

C25_Witness ==
    /\ pc = "iterated"
    /\ fin.models = <<"m1", "m2", "m3">>
    /\ fin.preferred = "m3"
    /\ fout.yielded = <<"m3", "m1", "m2">>

\* what the call studied works on
LoadedName == resolved_provider_name(fin.config, fin.provider_name)

LoadedSection == fin.config[provider_key_of(LoadedName)]

LoadFinished == pc \in {"loaded", "config_error"}

ModelsConfigured ==
    LoadedSection.models.kind # "none" /\ LoadedSection.models.items # <<>>

\* no credential of the section is set to the empty string, so that an
\* option is present exactly when it is set
NoEmptyOption ==
    /\ LoadedSection.api_key # ""
    /\ LoadedSection.client_id # ""
    /\ LoadedSection.client_secret # ""

\* C26: load_provider_config fails whenever the model list is absent,
\* whenever a provider other than the default one has no base_url, and
\* whenever neither an API key nor both a client id and a client secret are
\* present; in every other case it succeeds.
C26_FailsExactlyWhen ==
    (LoadFinished /\ NoEmptyOption) =>
        (~fout.ok <=>
            \/ ~ModelsConfigured
            \/ (LoadedName # "default" /\ LoadedSection.base_url = None)
            \/ ~(\/ Truthy(LoadedSection.api_key)
                 \/ (Truthy(LoadedSection.client_id)
                     /\ Truthy(LoadedSection.client_secret))))

\* C26, as the code has it: the provider "openai" needs an API key that is
\* set (it may be empty) and nothing else; any other provider needs a
\* base_url unless it is the default one, and a non-empty API key or a
\* client id and a client secret that are both set (they may be empty); the
\* model list must be set and not empty.  A configuration returned holds the
\* options of the provider's section.
C26_LoadProviderConfig ==
    LoadFinished =>
        /\ fout.ok <=>
              /\ ModelsConfigured
              /\ IF LoadedName = "openai"
                 THEN LoadedSection.api_key # None
                 ELSE /\ LoadedName = "default" \/ LoadedSection.base_url # None
                      /\ \/ Truthy(LoadedSection.api_key)
                         \/ (LoadedSection.client_id # None
                             /\ LoadedSection.client_secret # None)
        /\ fout.ok =>
              /\ fout.value.provider_name = LoadedName
              /\ fout.value.models = LoadedSection.models.items
              /\ fout.value.base_url = LoadedSection.base_url
              /\ fout.value.api_key = LoadedSection.api_key
        /\ ~fout.ok => fout.exc.type = "AssertionError"

\* the provider "openai" is loaded without a base_url
C26_Witness ==
    /\ pc = "loaded"
    /\ LoadedName = "openai"
    /\ LoadedSection.base_url = None
    /\ LoadedSection.api_key = "key"
    /\ fout.value.models = <<"m1">>

\* call i of the log was answered with the skip text
SkippedCall(i) == fout.log[i].content = SkippedText(fout.log[i].name)

\* calls i and j name the same tool with the same arguments (the assistant
\* text is the same in all of them)
SameCall(i, j) ==
    /\ fout.log[i].name = fout.log[j].name
    /\ fout.log[i].arguments = fout.log[j].arguments

\* the calls before call i that its own conversation made
EarlierOwn(i) == {j \in 1..(i - 1) : fout.log[j].conversation = fout.log[i].conversation}

\* the largest element of a non-empty set of numbers
Max(S) == CHOOSE x \in S : \A y \in S : y <= x

\* C27: with one manager per conversation a call is skipped exactly when the
\* call its own conversation made before it was the same call, whatever the
\* other conversation does; with one manager for both a call is skipped
\* exactly when the call made immediately before it, by either conversation,
\* was the same call.
C27_SharedMemoryHazard ==
    \A i \in 1..Len(fout.log) :
        IF fin.shared
        THEN SkippedCall(i) <=> (i > 1 /\ SameCall(i, i - 1))
        ELSE SkippedCall(i) <=> (EarlierOwn(i) # {} /\ SameCall(i, Max(EarlierOwn(i))))

\* the hazard: on a shared manager a call that is the first of its kind in
\* its conversation is skipped because the other conversation made the same
\* call immediately before
C27_Witness ==
    /\ fin.shared
    /\ \E i \in 2..Len(fout.log) :
          /\ SkippedCall(i)
          /\ ~fout.log[i].invoked
          /\ fout.log[i - 1].conversation # fout.log[i].conversation
          /\ SameCall(i, i - 1)
          /\ \A j \in EarlierOwn(i) : ~SameCall(i, j)

\* the same interleaving on two managers: the call is made
C27_WitnessSeparate ==
    /\ ~fin.shared
    /\ \E i \in 2..Len(fout.log) :
          /\ ~SkippedCall(i)
          /\ fout.log[i].invoked
          /\ fout.log[i - 1].conversation # fout.log[i].conversation
          /\ SameCall(i, i - 1)
          /\ \A j \in EarlierOwn(i) : ~SameCall(i, j)

\* C28: in the legacy invoke_chat, the provider request that follows a tool
\* round contains the assistant message with the round's tool-call records
\* and every tool result message of the round (rounds in which a tool ran).
C28_LegacyFollowUp ==
    \A k \in 1..Len(fout.rounds) :
        (k + 1 <= Len(fout.requests) /\ Len(fout.rounds[k]) > 1) =>
            \A i \in 1..Len(fout.rounds[k]) :
                fout.rounds[k][i] \in Range(fout.requests[k + 1])

\* every attempt of the current dispatch failed with the same error text
SameErrorThroughout ==
    /\ obs.errors # <<>>
    /\ \A i \in 1..Len(obs.errors) : obs.errors[i] = obs.errors[1]

\* the tools-unsupported recovery is attempted once: a second failure with
\* that text ends the dispatch
ToolsRecoveryOnce ==
    (obs.errors[1].kind = "tools_unsupported" /\ Len(obs.errors) >= 2) => pc = "failed"

\* C29: retry termination: while the provider fails every attempt of a
\* dispatch with the same recoverable error text, every retry sends a request
\* that differs from the one that just failed (so that retries cannot go on
\* for ever); the tools-unsupported recovery is attempted once, and every
\* retry after the input-too-long error sends strictly fewer messages.
C29_RetryTerminates ==
    (api = "invoke" /\ SameErrorThroughout) =>
        /\ ToolsRecoveryOnce
        /\ (pc = "dispatch" /\ obs.errors[1].kind = "input_too_long") =>
              Len(request.messages) < Len(obs.failed_req.messages)
        /\ pc = "dispatch" => request # obs.failed_req

\* the first dispatch of the top-level call is over: its response was parsed
\* or its exception has reached the caller
FirstDispatchOver ==
    \/ pc = "failed" /\ obs.parsed = 0
    \/ pc \in {"done", "tools"} /\ obs.parsed = 1

\* C30: no duplicate recording under retry: when the first dispatch of a call
\* is over, the history holds what it held before the call, then every
\* message the caller supplied exactly once, then the assistant's text if a
\* response was parsed, however many attempts the dispatch took.
C30_RecordedOnce ==
    FirstDispatchOver =>
        history = obs.hist0 \o obs.supplied
                  \o (IF obs.parsed = 1 THEN <<AssistantMsg(obs.last_text)>> ELSE <<>>)

\* n copies of a list, one after the other
RECURSIVE Copies(_, _)
Copies(q, n) == IF n = 0 THEN <<>> ELSE q \o Copies(q, n - 1)

\* the history grows in this step by copies of the turn's original messages,
\* each in the given order, and then by these entries
GrowsByOriginalsThen(entries) ==
    \E n \in 1..MaxProviderCalls :
        history' = history \o Copies(prepared.original_messages, n) \o entries

\* C31: history ordering per turn: the turn's originally supplied messages
\* reach the history in their given order and the assistant entry of the
\* turn, one entry holding the turn's assistant text, comes after them; a
\* turn whose dispatch ends in a fatal error adds no assistant entry; nothing
\* else is added, so that the entries of a round precede those of the next.
C31_HistoryOrder ==
    [][ IF pc = "dispatch" /\ pc' \in {"done", "tools"}
        THEN GrowsByOriginalsThen(<<AssistantMsg(obs'.last_text)>>)
        ELSE IF pc = "dispatch" /\ pc' = "failed"
        THEN GrowsByOriginalsThen(<<>>)
        ELSE IF pc = "dispatch" /\ pc' = "stream"
        THEN history' = history \o prepared.original_messages
        ELSE IF pc = "stream" /\ pc' \in {"done", "tools"}
        THEN history' = history \o <<AssistantMsg(obs'.last_text)>>
        ELSE history' = history
      ]_vars

\* two rounds without a retry: the first turn's messages, its assistant
\* entry, the follow-up messages, the second assistant entry
C31_Witness ==
    /\ pc = "done"
    /\ obs.parsed = 2
    /\ obs.tool_turns = 1
    /\ obs.failures = 0
    /\ Len(params.messages) >= 2
    /\ history = obs.hist0 \o obs.supplied
                 \o <<AssistantMsg(params.messages[1].content)>>
                 \o params.messages \o <<AssistantMsg(obs.last_text)>>

\* C32: append-only history: every step of invoke / invoke_stream, retries,
\* tool rounds and fatal errors included, leaves the history as it was or
\* extends it at its end; the history a call found is a prefix of the history
\* at every later moment of the call.
C32_AppendOnly ==
    /\ [](IsPrefix(obs.hist0, history))
    /\ [][IsPrefix(history, history')]_vars

\* a call with a retry and a tool round that ended in a fatal error
C32_Witness ==
    /\ pc = "failed"
    /\ obs.tool_turns = 1
    /\ obs.failures >= 2
    /\ obs.hist0 # <<>>
    /\ IsPrefix(obs.hist0, history)
    /\ Len(history) >= Len(obs.hist0) + 4

\* the user messages the caller started the top-level call with
StartingUserMessages == {m \in Range(obs.supplied) : m.role = "user"}

\* C33: the original user request survives the tool loop: every request that
\* is dispatched after a tool round contains each user message the caller
\* started the call with.
C33_UserRequestSurvives ==
    (pc = "dispatch" /\ obs.tool_turns > 0) =>
        StartingUserMessages \subseteq Range(request.messages)

\* the logged execute call i was answered with the skip text
SkippedEntry(i) == tool_log[i].messages[2].content = SkippedText(tool_log[i].name)

\* C34: anti-loop memory is scoped to one top-level call: the first tool
\* call that a later top-level invoke hands to the tool manager is not
\* skipped.
C34_MemoryScopedToCall ==
    (fin >= 1 /\ Len(tool_log) > fout) => ~SkippedEntry(fout + 1)

SuppliedBy(p) == IF p.messages # <<>> THEN p.messages ELSE <<UserMsg(p.prompt)>>

CalledModels == [i \in 1..Len(fout.calls) |-> fout.calls[i].model]

\* the provider calls that came back without raising
NotRaised == {i \in 1..Len(fout.calls) : fout.calls[i].outcome.kind # "raise"}

\* the provider calls whose response carried a first choice
Read == {i \in 1..Len(fout.calls) : fout.calls[i].outcome.kind = "content"}

\* C37 as stated: candidates are called in the order of available_models;
\* the result is the content of the first call that does not raise and no
\* model is called after it; no model is called twice; the result is None
\* exactly when every candidate's call raised.
C37_FirstNotRaising ==
    /\ IsPrefix(CalledModels, candidate_models(fin))
    /\ NotRaised \subseteq {Len(fout.calls)}
    /\ IsDistinct(CalledModels)
    /\ pc = "invoke_model_done" =>
          /\ NotRaised # {} => fout.value.text = fout.calls[Len(fout.calls)].outcome.text
          /\ fout.value.is_none <=>
                 (NotRaised = {} /\ Len(fout.calls) = Len(candidate_models(fin)))

\* C37: candidates are called in the order of available_models; a call
\* that raises or whose response has no choice counts as failed; the result
\* is the content of the first call that did not fail and no model is called
\* after it; no model is called twice when the configured models are
\* distinct; the result is None exactly when every candidate failed or the
\* content read is None.
C37_FallbackOrder ==
    /\ IsPrefix(CalledModels, candidate_models(fin))
    /\ Read \subseteq {Len(fout.calls)}
    /\ IsDistinct(fin.models) => IsDistinct(CalledModels)
    /\ pc = "invoke_model" => Read = {} /\ Len(fout.calls) = fout.position - 1
    /\ pc = "invoke_model_done" =>
          IF Read # {}
          THEN LET last == fout.calls[Len(fout.calls)].outcome
               IN fout.value = [is_none |-> last.is_none, text |-> last.text]
          ELSE /\ CalledModels = candidate_models(fin)
               /\ fout.value = NoneValue

\* the preferred model raises, the next response has no choice, the third
\* model answers
C37_Witness ==
    /\ pc = "invoke_model_done"
    /\ fin.models = <<"m1", "m2", "m3">>
    /\ fin.user_selected_model = "m3"
    /\ CalledModels = <<"m3", "m1", "m2">>
    /\ fout.calls[1].outcome.kind = "raise"
    /\ fout.calls[2].outcome.kind = "no_choices"
    /\ fout.value = [is_none |-> FALSE, text |-> <<"answer of ", "m2">>]

\* every candidate failed and None is returned
C37_WitnessExhausted ==
    /\ pc = "invoke_model_done"
    /\ Len(fout.calls) = 3
    /\ Read = {}
    /\ fout.value = NoneValue

\* C38: all the chunks invoke_model_generator yields during one call come
\* from one provider stream of one model.
C38_SingleModelOutput ==
    \A i, j \in 1..Len(fout.yielded) :
        /\ fout.yielded[i].stream = fout.yielded[j].stream
        /\ fout.yielded[i].model = fout.yielded[j].model

\* the max_tokens entry of the payload built for the request at hand
SentMaxTokens == build_payload(request).max_tokens

\* C39: the payload of every request carries max_tokens exactly when the
\* request's max_completion_tokens is not None, and then it is the smaller
\* of that value and the provider configuration's max_completion_tokens, so
\* never above the configured ceiling.
C39_WireTokenCeiling ==
    pc # "idle" =>
        /\ SentMaxTokens = <<>> <=> request.max_completion_tokens = <<>>
        /\ SentMaxTokens # <<>> =>
              /\ SentMaxTokens[1] <= ProviderMaxCompletionTokens
              /\ SentMaxTokens[1] <= request.max_completion_tokens[1]
              /\ SentMaxTokens[1] \in {request.max_completion_tokens[1],
                                       ProviderMaxCompletionTokens}

\* a request for 2000 tokens goes out with the configured ceiling
C39_Witness ==
    /\ pc = "dispatch"
    /\ obs.calls = 0
    /\ request.max_completion_tokens = <<2000>>
    /\ ProviderMaxCompletionTokens < 2000
    /\ SentMaxTokens = <<ProviderMaxCompletionTokens>>

\* a request below the ceiling keeps its value, one without a value sends none
C39_WitnessBelow ==
    /\ pc = "dispatch"
    /\ request.max_completion_tokens = <<1000>>
    /\ SentMaxTokens = <<1000>>

C39_WitnessAbsent ==
    /\ pc = "dispatch"
    /\ request.max_completion_tokens = <<>>
    /\ SentMaxTokens = <<>>

====
